---- MODULE Spec2Model ----
(***************************************************************************)
(* Asset export orchestration of spaces-design (src/js/actions/export.js). *)
(*                                                                         *)
(* The module state of export.js (_exportService, _lastFolderPath,         *)
(* _activeExports), the export store (serviceAvailable, serviceBusy, the   *)
(* asset lists of the document root and of every layer) and the promise    *)
(* chains of the export requests are the variables. One action is one      *)
(* synchronous run of code: an entry point up to the point where it hands  *)
(* out promises, or one promise callback. Everything that the code leaves  *)
(* to a later tick (dispatchAsync, a transfer's result, a worker reply, a  *)
(* native dialog, a metadata write) is a separate action, so every         *)
(* interleaving of the chains at their asynchronous boundaries is a        *)
(* behaviour of the model.                                                 *)
(***************************************************************************)
EXTENDS Integers, Sequences, FiniteSets, TLC

\* ------------------------------------------------------------------ bounds

\* Number of export requests (calls of exportLayerAssets or
\* exportDocumentAssets) one behaviour may issue.
NumRequests == 2

\* Number of onReset calls one behaviour may issue.
MaxResets == 1

\* Longest list of layer names the filename derivation is applied to.
MaxNames == 4

\* Number of asset operations (add, update, delete, default) one behaviour
\* may call.
MaxEdits == 2

\* Number of assets a list holds before addAsset is called on it.
MaxAssets == 6

\* Number of mouse events one behaviour feeds to the SuperSelectTool.
MaxMouse == 5

\* Number of native menu commands one behaviour may run.
MaxCommands == 3

Requests == 1..NumRequests

\* ------------------------------------------------------------ the document

\* The document root target; layers are the other targets.
ROOT == 0

LayerIDs == {1, 2, 3}

Targets == LayerIDs \cup {ROOT}

\* Layer kinds that can be exported (document.layers.filterExportable).
ExportableLayers == {1, 2}

\* layer.name of every layer.
LayerName == [l \in LayerIDs |-> IF l = 3 THEN "Logo" ELSE "Icon"]

\* document.nameWithoutExtension
DocumentName == "Doc"

\* Folders the native folder chooser can return.
Dirs == {"/a", "/b"}

\* The layers argument of exportLayerAssets: a list of layers, or none given.
NoLayers == <<0>>

LayerArgs == {NoLayers, <<1>>, <<1, 2, 3>>}

\* ExportAsset.SCALES in tenths: 0.5, 1, 1.5, 2, 3, 4.
SCALES == <<5, 10, 15, 20, 30, 40>>

NULL == "null"

\* ---------------------------------------------------------------- variables

VARIABLES
    exportService,    \* _exportService: "null", "ready" or "unready"
    lastFolderPath,   \* _lastFolderPath: NULL or a folder
    activeExports,    \* _activeExports: 0 (null) or the request whose batch it is
    serviceAvailable, \* export store: serviceAvailable
    serviceBusy,      \* export store: serviceBusy
    assets,           \* export store: the asset list of every target
    exportEnabled,    \* document store: layer.exportEnabled
    req,              \* the promise chain of every export request
    tasks,            \* the export tasks launched so far, in launch order
    batch,            \* the BatchJob registered by every request
    resets,           \* onReset calls so far, and the state of the running one
    names,            \* input of the filename derivation
    filenames,        \* output of the filename derivation
    startup,          \* the promise chain of afterStartup, step by step
    edit,             \* the running call of an asset operation, and their count
    metadata,         \* the exportsMetadata extension data stored in the document
    docStore,         \* document store: the document and the layers it holds
    menu,             \* menu store and policy store, and the running menu command
    tool              \* the SuperSelectTool instance and what it dispatched

vars == <<exportService, lastFolderPath, activeExports, serviceAvailable,
          serviceBusy, assets, exportEnabled, req, tasks, batch, resets,
          names, filenames, startup, edit, metadata, docStore, menu, tool>>

\* ------------------------------------------------------- the export store

\* The default suffix of an asset of the given scale (ExportAsset model).
deriveSuffix(scale) ==
    CASE scale = 5  -> "@0.5x"
      [] scale = 10 -> ""
      [] scale = 15 -> "@1.5x"
      [] scale = 20 -> "@2x"
      [] scale = 30 -> "@3x"
      [] OTHER      -> "@4x"

\* A new ExportAsset made of the given properties; its format is png unless
\* one is given.
NewAsset(scale) ==
    [scale |-> scale, suffix |-> deriveSuffix(scale), format |-> "png",
     status |-> "QUEUED", filePath |-> ""]

\* list with x inserted at index i (0-based), the entries at >= i moved up.
InsertAt(list, i, x) ==
    LET k == IF i > Len(list) THEN Len(list) ELSE i
    IN  SubSeq(list, 1, k) \o <<x>> \o SubSeq(list, k + 1, Len(list))

\* The store's handler of ASSET_ADDED: one asset inserted at assetIndex into
\* the list of every target of the payload.
assetAdded(store, targets, assetIndex, scale) ==
    [t \in Targets |->
        IF t \in targets THEN InsertAt(store[t], assetIndex, NewAsset(scale))
        ELSE store[t]]

\* The store's handler of ASSET_ADDED for a list of props: the assets are
\* inserted at assetIndex in the order of the list.
RECURSIVE assetsAdded(_, _, _, _)
assetsAdded(store, targets, assetIndex, scales) ==
    IF scales = <<>> THEN store
    ELSE assetsAdded(assetAdded(store, targets, assetIndex, Head(scales)),
                     targets, assetIndex + 1, Tail(scales))

\* The store's handler of DELETE_ASSET: the entry at assetIndex is removed
\* from the list of every target of the payload.
assetDeleted(store, targets, assetIndex) ==
    [t \in Targets |->
        IF t \in targets /\ assetIndex < Len(store[t])
        THEN SubSeq(store[t], 1, assetIndex)
             \o SubSeq(store[t], assetIndex + 2, Len(store[t]))
        ELSE store[t]]

\* The store's handling of the props of an ASSET_CHANGED for one list, as the
\* callers have it (the props "are added to the list beginning at the
\* supplied index"; addDefaultAsset adds its asset by an update with empty
\* props at index 0 of an empty list): the props, a scale, a suffix, a format
\* or none, are merged into the asset at assetIndex when the list has one;
\* when it has none a new ExportAsset is made of them.
propsMerged(list, assetIndex, scales, suffixes, formats) ==
    LET asset    == IF assetIndex < Len(list) THEN list[assetIndex + 1]
                    ELSE NewAsset(IF scales = <<>> THEN 10 ELSE scales[1])
        scaled   == IF scales = <<>> THEN asset
                    ELSE [asset EXCEPT !.scale = scales[1]]
        suffixed == IF suffixes = <<>> THEN scaled
                    ELSE [scaled EXCEPT !.suffix = suffixes[1]]
    IN  IF formats = <<>> THEN suffixed
        ELSE [suffixed EXCEPT !.format = formats[1]]

\* The list with the merged asset at its place: at assetIndex, or at the end
\* of a list that has no asset there.
withMerged(list, assetIndex, asset) ==
    IF assetIndex < Len(list) THEN [list EXCEPT ![assetIndex + 1] = asset]
    ELSE Append(list, asset)

\* The store's handler of ASSET_CHANGED: the props of the payload are merged
\* into the asset at assetIndex of every target.
propsChanged(store, targets, assetIndex, scales, suffixes, formats) ==
    [t \in Targets |->
        IF t \in targets
        THEN withMerged(store[t], assetIndex,
                        propsMerged(store[t], assetIndex, scales, suffixes,
                                    formats))
        ELSE store[t]]

\* The exportsMetadata of a target as _syncExportMetadata builds it from the
\* stores: the asset list of the target and, for a layer, its exportEnabled.
exportsMetadata(store, enabled, t) ==
    [exportAssets |-> store[t], exportEnabled |-> t # ROOT /\ enabled[t]]

\* No metadata write is in flight.
NoWrite == [throws |-> FALSE, history |-> FALSE, data |-> <<>>]

\* A variant of _syncExportMetadata that leaves out the layers it does not
\* find and writes the others.
syncExportMetadataFound(store, enabled, doc, targets, suppressHistory) ==
    IF ~doc.found \/ ~doc.exports
    THEN [throws |-> TRUE, history |-> FALSE, data |-> <<>>]
    ELSE [throws |-> FALSE, history |-> ~suppressHistory,
          data |-> [t \in {x \in targets : x = ROOT \/ x \in doc.layers} |->
                       exportsMetadata(store, enabled, t)]]

\* _syncExportMetadata(documentID, layerIDs, suppressHistory) for the targets
\* (the layers, or ROOT without layerIDs): it throws when the document or its
\* DocumentExports is not found, or a layer of layerIDs is not found;
\* otherwise one play object is built for every target from the stores as
\* they are now, and all of them go into one batchPlayObjects, with
\* historyStateInfo unless suppressHistory is set.
syncExportMetadata(store, enabled, doc, targets, suppressHistory) ==
    IF \/ ~doc.found \/ ~doc.exports
       \/ \E t \in targets : t # ROOT /\ t \notin doc.layers
    THEN [throws |-> TRUE, history |-> FALSE, data |-> <<>>]
    ELSE [throws |-> FALSE, history |-> ~suppressHistory,
          data |-> [t \in targets |-> exportsMetadata(store, enabled, t)]]

\* The extension data of the document once Photoshop has played the play
\* objects of a write: the exportsMetadata of each of its targets is replaced.
batchPlayed(meta, write) ==
    [t \in Targets |-> IF t \in DOMAIN write.data THEN write.data[t] ELSE meta[t]]

\* list with the status of every asset set to REQUESTED.
RECURSIVE markRequested(_)
markRequested(list) ==
    IF list = <<>> THEN <<>>
    ELSE <<[Head(list) EXCEPT !.status = "REQUESTED"]>> \o markRequested(Tail(list))

\* The store's handler of SET_AS_REQUESTED: every asset of the targets of the
\* payload gets status REQUESTED.
setAsRequested(store, targets) ==
    [t \in Targets |->
        IF t \in targets
        THEN markRequested(store[t])
        ELSE store[t]]

\* The store's handler of ASSET_CHANGED for the outcome of a task: status and
\* filePath are merged into the asset at assetIndex (0-based) of every target
\* of the payload.
assetChanged(store, targets, assetIndex, status, filePath) ==
    [t \in Targets |->
        IF t \in targets
        THEN withMerged(store[t], assetIndex,
                        [propsMerged(store[t], assetIndex, <<>>, <<>>, <<>>)
                            EXCEPT !.status = status, !.filePath = filePath])
        ELSE store[t]]

\* The elements of a list, as a set.
Range(list) == {list[i] : i \in 1..Len(list)}

\* list with the entries that satisfy no membership in keep dropped.
RECURSIVE FilterSeq(_, _)
FilterSeq(list, keep) ==
    IF list = <<>> THEN <<>>
    ELSE (IF Head(list) \in keep THEN <<Head(list)>> ELSE <<>>)
         \o FilterSeq(Tail(list), keep)

\* document.layers.filterExportable
filterExportable(layers) == FilterSeq(layers, ExportableLayers)

\* documentExports.filterLayersWithoutExports
filterLayersWithoutExports(store, layers) ==
    FilterSeq(layers, {l \in LayerIDs : store[l] = <<>>})

\* documentExports.getLayersWithExports(document, undefined, true): all the
\* layers currently flagged exportEnabled, in document order.
getLayersWithExports(store, enabled) ==
    FilterSeq(<<1, 2, 3>>, {l \in LayerIDs : enabled[l]})

\* A variant of firstUnused that falls back to the last of SCALES when all are
\* used.
RECURSIVE firstUnusedOrLast(_, _)
firstUnusedOrLast(scales, used) ==
    IF scales = <<>> THEN SCALES[Len(SCALES)]
    ELSE IF Head(scales) \notin used THEN Head(scales)
    ELSE firstUnusedOrLast(Tail(scales), used)

\* The first of SCALES that is not among the scales of exportsList, and the
\* first of SCALES when all are used.
RECURSIVE firstUnused(_, _)
firstUnused(scales, used) ==
    IF scales = <<>> THEN SCALES[1]
    ELSE IF Head(scales) \notin used THEN Head(scales)
    ELSE firstUnused(Tail(scales), used)

nextScale(exportsList) ==
    firstUnused(SCALES, {exportsList[i].scale : i \in 1..Len(exportsList)})

\* documentExports.getUniformAssetsOnly: the assets that the lists of all the
\* given layers share, index by index from the front.
RECURSIVE uniformPrefix(_, _, _)
uniformPrefix(store, layers, n) ==
    IF \A l \in Range(layers) :
          /\ n < Len(store[l])
          /\ store[l][n + 1].scale = store[layers[1]][n + 1].scale
          /\ store[l][n + 1].suffix = store[layers[1]][n + 1].suffix
    THEN uniformPrefix(store, layers, n + 1)
    ELSE n

getUniformAssetsOnly(store, layers) ==
    IF layers = <<>> THEN <<>>
    ELSE SubSeq(store[layers[1]], 1, uniformPrefix(store, layers, 0))

\* documentExports.getLastUniformAssetIndex
getLastUniformAssetIndex(store, layers) ==
    Len(getUniformAssetsOnly(store, layers)) - 1

\* ------------------------------------------------------------------ Init

\* onReset was never called.
NoResets == [count |-> 0, closing |-> FALSE, closes |-> 0, result |-> "none"]

IdleRequest ==
    [pc |-> "idle", kind |-> "none", result |-> "pending", error |-> "",
     args |-> NoLayers, layersList |-> <<>>, explicit |-> FALSE,
     prompt |-> "none", promptOut |-> "pending", baseDir |-> NULL, seed |-> NULL,
     suspended |-> FALSE, restores |-> 0, unavailable |-> FALSE,
     add |-> "none", addLayers |-> <<>>, addIndex |-> 0, addScale |-> 0,
     whileActive |-> FALSE, without |-> {}, before |-> <<>>,
     launched |-> 0, wrote |-> {}, write |-> NoWrite]

\* The arguments and locals of a setLayerExportEnabled call that its
\* continuations close over: layers, exportEnabled, layersWithoutExports, and
\* whether LAYER_EXPORT_ENABLED_CHANGED is still to follow the quick-add.
\* Here, those of an operation that is not setLayerExportEnabled.
NoNext ==
    [pending |-> FALSE, layers |-> <<>>, exportEnabled |-> FALSE,
     without |-> <<>>]

\* No asset operation is running and none has been called.
IdleEdit ==
    [pc |-> "idle", op |-> "none", layers |-> <<>>, targets |-> {},
     index |-> 0, scales |-> <<>>, suffixes |-> <<>>, formats |-> <<>>,
     suppressErrors |-> FALSE,
     sync |-> "none", write |-> NoWrite, history |-> {}, next |-> NoNext,
     result |-> "none", error |-> "", count |-> 0]

\* The document store holds the document with all its layers, and the export
\* store holds its DocumentExports.
WholeDocument == [found |-> TRUE, exports |-> TRUE, layers |-> LayerIDs]

\* No menu command is running and none was run: the place command flag of
\* the menu store is off, the policies are not suspended, no listener of
\* toolModalStateChanged is registered and no handleExecutedPlaceCommand is
\* queued.
IdleMenu ==
    [pc |-> "idle", command |-> "none", result |-> "none", handler |-> "none",
     executing |-> FALSE, allSuspended |-> FALSE, modal |-> FALSE,
     performed |-> 0, suspends |-> 0, restores |-> 0, count |-> 0,
     queued |-> 0, listeners |-> 0, current |-> FALSE, startups |-> 0,
     resets |-> 0, exits |-> 0]

\* The SuperSelectTool as its constructor leaves it, with a document open and
\* no mouse event handled.
IdleTool ==
    [dragging |-> FALSE, dragEvent |-> NULL, spaceKeyDown |-> FALSE,
     currentDocument |-> TRUE, clicks |-> 0, drags |-> 0, sinceDown |-> 0,
     count |-> 0]

\* afterStartup before its call: no attempt made, nothing queried.
IdleStartup ==
    [pc |-> "idle", debug |-> FALSE, quickChecks |-> 0, attempts |-> 0,
     failed |-> 0, statusQueries |-> 0, enables |-> 0, result |-> "pending",
     available |-> "none", quick |-> "none", tap |-> "none", runs |-> 0]

\* The state after construction, the export service apart.
Constructed ==
    /\ lastFolderPath = NULL
    /\ activeExports = 0
    /\ serviceBusy = FALSE
    /\ assets \in {[t \in Targets |->
                      IF t = 2 \/ (t = ROOT /\ root) THEN <<NewAsset(10)>> ELSE <<>>]
                   : root \in BOOLEAN}
    /\ exportEnabled = [l \in LayerIDs |-> l = 2]
    /\ req = [r \in Requests |-> IdleRequest]
    /\ tasks = <<>>
    /\ batch = [r \in Requests |-> "none"]
    /\ resets = NoResets
    /\ names = <<>>
    /\ filenames = <<>>
    /\ startup = IdleStartup
    /\ edit = IdleEdit
    /\ metadata = [t \in Targets |-> exportsMetadata(assets, exportEnabled, t)]
    /\ docStore = WholeDocument
    /\ menu = IdleMenu
    /\ tool = IdleTool

\* The state after construction: afterStartup was not called.
Init ==
    /\ exportService = "null"
    /\ serviceAvailable = FALSE
    /\ Constructed

\* The states afterStartup ends in when it has run to its end before any
\* request: the connection is stored ready and setServiceAvailable(true) was
\* dispatched, or the connection that failed to initialise in the second
\* attempt stays stored, or none is stored.
InitStarted ==
    /\ exportService \in {"ready", "unready", "null"}
    /\ serviceAvailable = (exportService = "ready")
    /\ Constructed

\* Layer names the filename derivation is tried on.
NameSet == {"Icon", "Logo", "Icon 2"}

\* The lists of at most n layer names.
NameLists(n) == UNION {[1..k -> NameSet] : k \in 0..n}

\* --------------------------------------------------------- service set-up

\* _exportService && _exportService.ready()
serviceReady == exportService = "ready"

\* ------------------------------------------- afterStartup, step by step

\* What the steps of afterStartup leave alone.
notStartup == <<lastFolderPath, activeExports, serviceBusy, assets,
                exportEnabled, req, tasks, batch, resets, names, filenames,
                edit, metadata, docStore, menu, tool>>

\* _enableAndConnect is called: _getGeneratorStatus is issued.
enableAndConnect(su) ==
    [su EXCEPT !.pc = "status", !.attempts = @ + 1, !.statusQueries = @ + 1]

\* A variant of attemptFailed without the second attempt: the first rejected
\* attempt ends the chain.
attemptFailedNoRetry(su) ==
    [su EXCEPT !.pc = "done", !.failed = @ + 1, !.result = "fulfilled"]

\* An attempt of _enableAndConnect is rejected. The first one is caught and
\* the second one is started at once; the second one ends the chain in its
\* final catch, which returns false.
attemptFailed(su) ==
    IF su.attempts = 1
    THEN enableAndConnect([su EXCEPT !.failed = @ + 1])
    ELSE [su EXCEPT !.pc = "done", !.failed = @ + 1, !.result = "fulfilled"]

\* _exportService after a rejected attempt: the catch of the first attempt
\* sets it to null, the final catch leaves it as it is.
handleAfterFailure(su, service) == IF su.attempts = 1 THEN "null" ELSE service

\* init() of the ExportService that _initService was given is fulfilled: that
\* service is ready. _initService assigns nothing to _exportService, which
\* stays null when onReset has dropped the service in the meantime.
initialised(service) == IF service = "null" THEN "null" ELSE "ready"

\* afterStartup is called, at startup and once more after each reset, when
\* onReset has settled and the run before has come to its end: _preCheck
\* reads the port in debug mode and is fulfilled with false otherwise, and
\* then the first attempt starts.
preCheck(debug) ==
    /\ \/ startup.pc = "idle"
       \/ /\ startup.pc = "done" /\ startup.available # "pending"
          /\ startup.runs <= resets.count /\ ~resets.closing
    /\ startup' = LET called == [IdleStartup EXCEPT !.runs = startup.runs + 1]
                  IN  IF debug
                      THEN [called EXCEPT !.pc = "quickPort", !.debug = TRUE,
                                          !.quickChecks = @ + 1]
                      ELSE enableAndConnect(called)
    /\ UNCHANGED <<exportService, serviceAvailable>>
    /\ UNCHANGED notStartup

\* _preCheck, the port is read: an ExportService in quick check mode is
\* stored and _initService calls its init().
quickCheckPort ==
    /\ startup.pc = "quickPort"
    /\ exportService' = "unready"
    /\ startup' = [startup EXCEPT !.pc = "quickInit"]
    /\ UNCHANGED serviceAvailable
    /\ UNCHANGED notStartup

\* A variant of quickCheckInit that does not look at the result of _preCheck:
\* _enableAndConnect runs after a quick check that succeeded too.
quickCheckInitThenConnect(ok) ==
    /\ startup.pc = "quickInit"
    /\ exportService' = IF ok THEN initialised(exportService) ELSE "null"
    /\ startup' = IF ok THEN enableAndConnect([startup EXCEPT !.quick = "ok",
                                                  !.available = "pending"])
                  ELSE enableAndConnect([startup EXCEPT !.quick = "failed"])
    /\ UNCHANGED serviceAvailable
    /\ UNCHANGED notStartup

\* _preCheck, init() of the quick check ends. Fulfilled: setServiceAvailable
\* (true) is called and the chain goes to its tap. Rejected: the catch of
\* _preCheck sets _exportService to null and the first attempt starts.
quickCheckInit(ok) ==
    /\ startup.pc = "quickInit"
    /\ exportService' = IF ok THEN initialised(exportService) ELSE "null"
    /\ startup' = IF ok THEN [startup EXCEPT !.pc = "tap", !.quick = "ok",
                                             !.available = "pending"]
                  ELSE enableAndConnect([startup EXCEPT !.quick = "failed"])
    /\ UNCHANGED serviceAvailable
    /\ UNCHANGED notStartup

\* _getGeneratorStatus ends, with false when it failed: the generator is
\* enabled when it is not, and the port is read otherwise.
getGeneratorStatus(enabled) ==
    /\ startup.pc = "status"
    /\ startup' = IF enabled THEN [startup EXCEPT !.pc = "port"]
                  ELSE [startup EXCEPT !.pc = "enabling", !.enables = @ + 1]
    /\ UNCHANGED <<exportService, serviceAvailable>>
    /\ UNCHANGED notStartup

\* _setGeneratorStatus(true) ends: the port is read, or the attempt is
\* rejected.
setGeneratorStatus(ok) ==
    /\ startup.pc = "enabling"
    /\ startup' = IF ok THEN [startup EXCEPT !.pc = "port"]
                  ELSE attemptFailed(startup)
    /\ exportService' = IF ok THEN exportService
                        ELSE handleAfterFailure(startup, exportService)
    /\ UNCHANGED serviceAvailable
    /\ UNCHANGED notStartup

\* _getWebSocketPort ends, with null when it failed: a new ExportService is
\* stored and _initService calls its init().
getWebSocketPort ==
    /\ startup.pc = "port"
    /\ exportService' = "unready"
    /\ startup' = [startup EXCEPT !.pc = "init"]
    /\ UNCHANGED serviceAvailable
    /\ UNCHANGED notStartup

\* _initService, init() ends. Fulfilled: setServiceAvailable(true) is called
\* and the chain goes to its tap. Rejected: so is the attempt.
initService(ok) ==
    /\ startup.pc = "init"
    /\ exportService' = IF ok THEN initialised(exportService)
                        ELSE handleAfterFailure(startup, exportService)
    /\ startup' = IF ok THEN [startup EXCEPT !.pc = "tap", !.available = "pending"]
                  ELSE attemptFailed(startup)
    /\ UNCHANGED serviceAvailable
    /\ UNCHANGED notStartup

\* A variant of startupTap without the final catch: a failed dispatch rejects
\* afterStartup.
startupTapNoCatch(ok) ==
    /\ startup.pc = "tap"
    /\ startup' = [startup EXCEPT !.pc = "done",
                                  !.result = IF ok THEN "fulfilled" ELSE "rejected",
                                  !.tap = IF ok THEN "ok" ELSE "failed"]
    /\ UNCHANGED <<exportService, serviceAvailable>>
    /\ UNCHANGED notStartup

\* The tap: SET_STATE_PROPERTY (useArtboardPrefix) is dispatched; when the
\* dispatch fails the final catch returns false.
startupTap(ok) ==
    /\ startup.pc = "tap"
    /\ startup' = [startup EXCEPT !.pc = "done", !.result = "fulfilled",
                                  !.tap = IF ok THEN "ok" ELSE "failed"]
    /\ UNCHANGED <<exportService, serviceAvailable>>
    /\ UNCHANGED notStartup

\* The locks of setServiceAvailable (it writes JS_EXPORT) are free: no export
\* request, no asset operation and no updateExportAsset of a task is running.
serviceAvailableLocksFree ==
    /\ \A r \in Requests : req[r].pc # "idle" => req[r].result # "pending"
    /\ edit.pc = "idle"
    /\ \A t \in 1..Len(tasks) : tasks[t].st # "syncing"

\* setServiceAvailable(true), called by _initService as an action of its own:
\* it runs once its locks are free, and SERVICE_STATUS_CHANGED is dispatched.
serviceAvailableDispatched ==
    /\ startup.available = "pending"
    /\ serviceAvailableLocksFree
    /\ serviceAvailable' = TRUE
    /\ startup' = [startup EXCEPT !.available = "done"]
    /\ UNCHANGED exportService
    /\ UNCHANGED notStartup

\* ------------------------------------------------------- export requests

\* The request may be called. Requests are numbered in the order of their
\* calls. The actions declare their locks (exportLayerAssets.action and the
\* like); through their transfer of promptForFolder, which writes ALL_LOCKS,
\* two export requests never run at once: the next one is run when the promise
\* returned by the one before has settled, and when neither an
\* updateExportAsset of a task nor an asset operation, which write JS_EXPORT,
\* is running.
MayCall(r) ==
    /\ req[r].pc = "idle"
    /\ r > 1 => req[r - 1].result # "pending"
    /\ \A t \in 1..Len(tasks) : tasks[t].st # "syncing"
    /\ edit.pc = "idle"

\* A variant of NotReady that does not return after the transfer: the call
\* goes on to promptForFolder.
NotReadyGoesOn(r, kind) ==
    [req EXCEPT ![r].pc = "unavailable", ![r].kind = kind,
                ![r].unavailable = TRUE,
                ![r].whileActive = activeExports # 0,
                ![r].prompt = "suspending"]

\* The service is not ready: transfer(setServiceAvailable, false).
NotReady(r, kind) ==
    [req EXCEPT ![r].pc = "unavailable", ![r].kind = kind,
                ![r].unavailable = TRUE,
                ![r].whileActive = activeExports # 0]

\* transfer(promptForFolder), its synchronous part: suspendAllPolicies is
\* transferred.
promptForFolder(rq) == [rq EXCEPT !.prompt = "suspending"]

\* addAsset without props, its synchronous part: where and what to insert is
\* computed from the documentExports passed in, and for layers the dispatch of
\* LAYER_EXPORT_ENABLED_CHANGED is issued.
addAsset(rq, store, layers) ==
    LET supported   == filterExportable(layers)
        exportsList == IF layers # <<>> THEN getUniformAssetsOnly(store, supported)
                       ELSE store[ROOT]
        assetIndex  == IF layers # <<>>
                       THEN getLastUniformAssetIndex(store, supported) + 1
                       ELSE Len(exportsList)
    IN  [rq EXCEPT !.add = IF layers # <<>> THEN "enabling" ELSE "inserting",
                   !.addLayers = supported,
                   !.addIndex = assetIndex,
                   !.addScale = nextScale(exportsList)]

\* A variant of resolveLayers that takes the layers supplied as they are,
\* without filterExportable.
resolveLayersUnfiltered(store, enabled, layers) ==
    IF layers # NoLayers THEN layers
    ELSE filterExportable(getLayersWithExports(store, enabled))

\* The layers an exportLayerAssets call resolves to.
resolveLayers(store, enabled, layers) ==
    IF layers # NoLayers THEN filterExportable(layers)
    ELSE filterExportable(getLayersWithExports(store, enabled))

\* exportLayerAssets, its synchronous part. The check of _activeExports makes
\* a rejected promise and drops it: the call goes on.
exportLayerAssets(r, layers) ==
    /\ MayCall(r)
    /\ IF ~serviceReady
       THEN req' = NotReady(r, "layers")
       ELSE LET layersList == resolveLayers(assets, exportEnabled, layers)
                without    == IF layers # NoLayers
                              THEN filterLayersWithoutExports(assets, layersList)
                              ELSE <<>>
                started    == [req[r] EXCEPT
                                  !.pc = "open", !.kind = "layers",
                                  !.args = layers,
                                  !.layersList = layersList,
                                  !.explicit = layers # NoLayers,
                                  !.whileActive = activeExports # 0,
                                  !.without = Range(without),
                                  !.before = [t \in Targets |-> Len(assets[t])]]
                added      == IF without = <<>> THEN started
                              ELSE addAsset(started, assets, without)
            IN  req' = [req EXCEPT ![r] = promptForFolder(added)]
    /\ UNCHANGED <<exportService, lastFolderPath, activeExports, serviceAvailable,
                   serviceBusy, assets, exportEnabled, tasks, batch, resets,
                   names, filenames, startup, edit, metadata, docStore, menu, tool>>

\* exportDocumentAssets, its synchronous part. _activeExports is not read.
exportDocumentAssets(r) ==
    /\ MayCall(r)
    /\ IF ~serviceReady
       THEN req' = NotReady(r, "document")
       ELSE LET started == [req[r] EXCEPT
                               !.pc = "open", !.kind = "document",
                               !.whileActive = activeExports # 0,
                               !.without = IF assets[ROOT] = <<>> THEN {ROOT} ELSE {},
                               !.before = [t \in Targets |-> Len(assets[t])]]
                added   == IF assets[ROOT] # <<>> THEN started
                           ELSE addAsset(started, assets, <<>>)
            IN  req' = [req EXCEPT ![r] = promptForFolder(added)]
    /\ UNCHANGED <<exportService, lastFolderPath, activeExports, serviceAvailable,
                   serviceBusy, assets, exportEnabled, tasks, batch, resets,
                   names, filenames, startup, edit, metadata, docStore, menu, tool>>

\* setServiceAvailable(false): SERVICE_STATUS_CHANGED is dispatched and the
\* request is fulfilled.
setServiceAvailable(r) ==
    /\ req[r].pc = "unavailable"
    /\ serviceAvailable' = FALSE
    /\ req' = [req EXCEPT ![r].pc = "done", ![r].result = "fulfilled"]
    /\ UNCHANGED <<exportService, lastFolderPath, activeExports, serviceBusy,
                   assets, exportEnabled, tasks, batch, resets, names, filenames,
                   startup, edit, metadata, docStore, menu, tool>>

\* copyFile and deleteFiles: the worker is called when the service is ready.
fileCall(r, kind) ==
    /\ MayCall(r)
    /\ req' = IF ~serviceReady THEN NotReady(r, kind)
              ELSE [req EXCEPT ![r].pc = "file", ![r].kind = kind,
                               ![r].whileActive = activeExports # 0,
                               ![r].wrote = @ \cup {"worker"}]
    /\ UNCHANGED <<exportService, lastFolderPath, activeExports, serviceAvailable,
                   serviceBusy, assets, exportEnabled, tasks, batch, resets,
                   names, filenames, startup, edit, metadata, docStore, menu, tool>>

copyFile(r) == fileCall(r, "copyFile")

deleteFiles(r) == fileCall(r, "deleteFiles")

\* The worker's answer to copyFile or deleteFiles settles the request.
fileReply(r, ok) ==
    /\ req[r].pc = "file"
    /\ req' = [req EXCEPT ![r].pc = "done",
                          ![r].result = IF ok THEN "fulfilled" ELSE "rejected",
                          ![r].error = IF ok THEN "" ELSE "worker"]
    /\ UNCHANGED <<exportService, lastFolderPath, activeExports, serviceAvailable,
                   serviceBusy, assets, exportEnabled, tasks, batch, resets,
                   names, filenames, startup, edit, metadata, docStore, menu, tool>>

\* ------------------------------------------------ addAsset, asynchronous part

\* LAYER_EXPORT_ENABLED_CHANGED is dispatched; _insertAssetsAtIndex then
\* issues the dispatch of ASSET_ADDED.
addEnableDispatched(r) ==
    /\ req[r].add = "enabling"
    /\ exportEnabled' = [l \in LayerIDs |->
                            exportEnabled[l] \/ l \in Range(req[r].addLayers)]
    /\ req' = [req EXCEPT ![r].add = "inserting"]
    /\ UNCHANGED <<exportService, lastFolderPath, activeExports, serviceAvailable,
                   serviceBusy, assets, tasks, batch, resets, names, filenames,
                   startup, edit, metadata, docStore, menu, tool>>

\* The targets of the request's addAsset.
addTargets(rq) == IF rq.kind = "document" THEN {ROOT} ELSE Range(rq.addLayers)

\* _insertAssetsAtIndex: ASSET_ADDED is dispatched and _syncExportMetadata
\* issues the metadata write, or throws.
insertAssetsAtIndex(r) ==
    /\ req[r].add = "inserting"
    /\ assets' = assetAdded(assets, addTargets(req[r]), req[r].addIndex,
                            req[r].addScale)
    /\ LET write == syncExportMetadata(assets', exportEnabled, docStore,
                                       addTargets(req[r]), FALSE)
       IN  req' = [req EXCEPT ![r].add = IF write.throws THEN "failed"
                                         ELSE "syncing",
                              ![r].write = IF write.throws THEN NoWrite ELSE write,
                              ![r].wrote = @ \cup {"asset"}]
    /\ UNCHANGED <<exportService, lastFolderPath, activeExports, serviceAvailable,
                   serviceBusy, exportEnabled, tasks, batch, resets, names,
                   filenames, startup, edit, metadata, docStore, menu, tool>>

\* The metadata write of addAsset ends: the promise of addAsset settles.
addSynced(r, ok) ==
    /\ req[r].add = "syncing"
    /\ req' = [req EXCEPT ![r].add = IF ok THEN "done" ELSE "failed",
                          ![r].write = NoWrite]
    /\ metadata' = IF ok THEN batchPlayed(metadata, req[r].write) ELSE metadata
    /\ UNCHANGED <<exportService, lastFolderPath, activeExports, serviceAvailable,
                   serviceBusy, assets, exportEnabled, tasks, batch, resets,
                   names, filenames, startup, edit, docStore, menu, tool>>

\* --------------------------------------------------------- promptForFolder

\* The finally handler of promptForFolder: restoreAllPolicies is transferred.
restoreAllPolicies(rq, out, dir) ==
    [rq EXCEPT !.prompt = "restoring", !.promptOut = out, !.baseDir = dir,
               !.restores = @ + 1]

\* A variant of suspendDone with one handler for both outcomes: the dialog is
\* opened after a failed suspendAllPolicies too.
suspendDoneOpensAnyway(r, ok) ==
    /\ req[r].prompt = "suspending"
    /\ req' = [req EXCEPT ![r] =
                  IF exportService = "null"
                  THEN restoreAllPolicies([@ EXCEPT !.suspended = ok],
                                          "dialogFailed", NULL)
                  ELSE [@ EXCEPT !.prompt = "dialog", !.suspended = ok,
                                 !.seed = IF lastFolderPath = NULL THEN "~"
                                          ELSE lastFolderPath,
                                 !.wrote = @ \cup {"chooser"}]]
    /\ UNCHANGED <<exportService, lastFolderPath, activeExports, serviceAvailable,
                   serviceBusy, assets, exportEnabled, tasks, batch, resets,
                   names, filenames, startup, edit, metadata, docStore, menu, tool>>

\* suspendAllPolicies ends. Fulfilled: the native folder dialog is opened,
\* seeded with _lastFolderPath (the call throws when _exportService is null).
\* Rejected: the error is rethrown. A throw runs the finally handler.
suspendDone(r, ok) ==
    /\ req[r].prompt = "suspending"
    /\ req' = [req EXCEPT ![r] =
                  IF ~ok THEN restoreAllPolicies(@, "suspendFailed", NULL)
                  ELSE IF exportService = "null"
                  THEN restoreAllPolicies([@ EXCEPT !.suspended = TRUE],
                                          "dialogFailed", NULL)
                  ELSE [@ EXCEPT !.prompt = "dialog", !.suspended = TRUE,
                                 !.seed = IF lastFolderPath = NULL THEN "~"
                                          ELSE lastFolderPath,
                                 !.wrote = @ \cup {"chooser"}]]
    /\ UNCHANGED <<exportService, lastFolderPath, activeExports, serviceAvailable,
                   serviceBusy, assets, exportEnabled, tasks, batch, resets,
                   names, filenames, startup, edit, metadata, docStore, menu, tool>>

\* A variant of dialogDone with the restore in a then handler instead of a
\* finally handler: an error of the dialog settles the prompt unrestored.
dialogDoneRestoreOnSuccess(r, answer) ==
    /\ req[r].prompt = "dialog"
    /\ req' = [req EXCEPT ![r] =
                  IF answer \in Dirs THEN restoreAllPolicies(@, "folder", answer)
                  ELSE IF answer = "cancel" THEN restoreAllPolicies(@, answer, NULL)
                  ELSE [@ EXCEPT !.prompt = "settled", !.promptOut = answer]]
    /\ UNCHANGED <<exportService, lastFolderPath, activeExports, serviceAvailable,
                   serviceBusy, assets, exportEnabled, tasks, batch, resets,
                   names, filenames, startup, edit, metadata, docStore, menu, tool>>

\* The native folder dialog ends with a folder, with null (cancel) or with an
\* error; the finally handler runs.
dialogDone(r, answer) ==
    /\ req[r].prompt = "dialog"
    /\ req' = [req EXCEPT ![r] =
                  IF answer \in Dirs THEN restoreAllPolicies(@, "folder", answer)
                  ELSE restoreAllPolicies(@, answer, NULL)]
    /\ UNCHANGED <<exportService, lastFolderPath, activeExports, serviceAvailable,
                   serviceBusy, assets, exportEnabled, tasks, batch, resets,
                   names, filenames, startup, edit, metadata, docStore, menu, tool>>

\* restoreAllPolicies ends: the promise of promptForFolder settles, with the
\* outcome of the dialog when the restore is fulfilled and with the error of
\* the restore otherwise.
restoreDone(r, ok) ==
    /\ req[r].prompt = "restoring"
    /\ req' = [req EXCEPT ![r].prompt = "settled",
                          ![r].promptOut = IF ok THEN @ ELSE "restoreFailed",
                          ![r].baseDir = IF ok THEN @ ELSE NULL]
    /\ UNCHANGED <<exportService, lastFolderPath, activeExports, serviceAvailable,
                   serviceBusy, assets, exportEnabled, tasks, batch, resets,
                   names, filenames, startup, edit, metadata, docStore, menu, tool>>

\* The promise of promptForFolder is rejected.
promptRejected(rq) ==
    rq.prompt = "settled" /\ rq.promptOut \notin {"folder", "cancel"}

\* The promise of promptForFolder is fulfilled.
promptFulfilled(rq) ==
    rq.prompt = "settled" /\ rq.promptOut \in {"folder", "cancel"}

\* The promise of addAsset (quickAddPromise) is fulfilled.
quickAddFulfilled(rq) == rq.add \in {"none", "done"}

\* ------------------------------------------------------ filenames and tasks

\* A variant of baseFilenames whose map starts a name at 0: the second layer
\* of a name gets the count 1.
RECURSIVE baseFilenamesFromZero(_, _)
baseFilenamesFromZero(layerNames, baseNameCountMap) ==
    IF layerNames = <<>> THEN <<>>
    ELSE LET filename == Head(layerNames)
         IN  IF filename \in DOMAIN baseNameCountMap
             THEN LET count == baseNameCountMap[filename] + 1
                  IN  <<filename \o " " \o ToString(count)>>
                      \o baseFilenamesFromZero(Tail(layerNames),
                              [baseNameCountMap EXCEPT ![filename] = count])
             ELSE <<filename>>
                  \o baseFilenamesFromZero(Tail(layerNames),
                                           baseNameCountMap @@ (filename :> 0))

\* The base filename of every layer of a batch, in the order of the layers:
\* baseNameCountMap holds, for every name met so far, the count last used.
RECURSIVE baseFilenames(_, _)
baseFilenames(layerNames, baseNameCountMap) ==
    IF layerNames = <<>> THEN <<>>
    ELSE LET filename == Head(layerNames)
         IN  IF filename \in DOMAIN baseNameCountMap
             THEN LET count == baseNameCountMap[filename] + 1
                  IN  <<filename \o " " \o ToString(count)>>
                      \o baseFilenames(Tail(layerNames),
                                       [baseNameCountMap EXCEPT ![filename] = count])
             ELSE <<filename>>
                  \o baseFilenames(Tail(layerNames),
                                   baseNameCountMap @@ (filename :> 1))

\* new Map()
EmptyMap == [n \in {} |-> 0]

\* _exportAsset, its synchronous part when a connection is stored (see
\* exportAssetThrows for when none is): the filename is put together and the
\* worker's exportAsset is called.
exportAsset(r, target, assetIndex, asset, baseDir, baseFilename) ==
    [req |-> r, target |-> target, index |-> assetIndex, dir |-> baseDir,
     filename |-> baseFilename \o asset.suffix,
     st |-> "inflight", promise |-> "pending", status |-> "", filePath |-> "",
     write |-> NoWrite]

\* One task for every asset of the list of a target, in list order.
exportList(r, target, list, baseDir, baseFilename) ==
    [i \in 1..Len(list) |->
        exportAsset(r, target, i - 1, list[i], baseDir, baseFilename)]

\* The tasks of the layers from position k on (flatMap over layersList).
RECURSIVE layerExportList(_, _, _, _, _, _)
layerExportList(r, store, layersList, filenameList, baseDir, k) ==
    IF k > Len(layersList) THEN <<>>
    ELSE exportList(r, layersList[k], store[layersList[k]], baseDir, filenameList[k])
         \o layerExportList(r, store, layersList, filenameList, baseDir, k + 1)

\* The names of the layers of a list.
layerNames(layersList) == [k \in 1..Len(layersList) |-> LayerName[layersList[k]]]

\* The tasks that have not settled: the worker has not answered yet.
unsettled == {t \in 1..Len(tasks) : tasks[t].st = "inflight"}

\* The tasks of request r.
tasksOf(r) == {t \in 1..Len(tasks) : tasks[t].req = r}

\* _batchExports: throws when a batch is active; otherwise the promise of all
\* the tasks becomes the active batch. The tasks are launched before the call.
batchExports(r, launched) ==
    /\ tasks' = tasks \o launched
    /\ IF activeExports # 0
       THEN /\ req' = [req EXCEPT ![r].pc = "done", ![r].result = "rejected",
                                  ![r].error = "conflict",
                                  ![r].launched = Len(launched),
                                  ![r].wrote = @ \cup (IF launched = <<>> THEN {}
                                                       ELSE {"worker"})]
            /\ UNCHANGED <<activeExports, batch>>
       ELSE /\ req' = [req EXCEPT ![r].pc = "done", ![r].result = "fulfilled",
                                  ![r].launched = Len(launched),
                                  ![r].wrote = @ \cup {"marker"} \cup
                                      (IF launched = <<>> THEN {} ELSE {"worker"})]
            /\ activeExports' = r
            /\ batch' = [batch EXCEPT ![r] = "running"]

\* _exportAsset with no connection stored (onReset has dropped it): the read
\* of _exportService.exportAsset throws a TypeError at the first asset.
exportAssetThrows(launched) == launched # <<>> /\ exportService = "null"

\* The launch handler of a request: the tasks are launched and _batchExports
\* is called, or the TypeError of _exportAsset rejects the request with
\* nothing launched and _batchExports not reached.
launchExports(r, launched) ==
    IF exportAssetThrows(launched)
    THEN /\ req' = [req EXCEPT ![r].pc = "done", ![r].result = "rejected",
                               ![r].error = "TypeError"]
         /\ UNCHANGED <<tasks, activeExports, batch>>
    ELSE batchExports(r, launched)

\* ------------------------------------------- export requests, continuation

\* A variant of folderChosen that does not assign _lastFolderPath.
folderChosenNotRemembered(r) ==
    /\ lastFolderPath' = lastFolderPath
    /\ req' = [req EXCEPT ![r].pc = "requesting", ![r].wrote = @ \cup {"folder"}]

\* A folder was chosen: it is remembered and SET_AS_REQUESTED is issued.
folderChosen(r) ==
    /\ lastFolderPath' = req[r].baseDir
    /\ req' = [req EXCEPT ![r].pc = "requesting", ![r].wrote = @ \cup {"folder"}]

\* The request ends here, fulfilled or rejected.
settle(r, result, error) ==
    /\ req' = [req EXCEPT ![r].pc = "done", ![r].result = result,
                          ![r].error = error]
    /\ UNCHANGED lastFolderPath

\* exportLayerAssets: the handler of the promise of promptForFolder.
layerFolderHandler(r) ==
    /\ req[r].pc = "open" /\ req[r].kind = "layers"
    /\ req[r].prompt = "settled"
    /\ IF promptRejected(req[r]) THEN settle(r, "rejected", "prompt")
       ELSE IF req[r].baseDir = NULL THEN settle(r, "fulfilled", "")
       ELSE folderChosen(r)
    /\ UNCHANGED <<exportService, activeExports, serviceAvailable, serviceBusy,
                   assets, exportEnabled, tasks, batch, resets, names, filenames,
                   startup, edit, metadata, docStore, menu, tool>>

\* exportDocumentAssets: Promise.join of the promises of promptForFolder and of
\* addAsset. It is rejected as soon as one of them is, and its handler runs
\* once both are fulfilled.
documentJoinHandler(r) ==
    /\ req[r].pc = "open" /\ req[r].kind = "document"
    /\ \/ /\ promptRejected(req[r])
          /\ settle(r, "rejected", "prompt")
       \/ /\ req[r].add = "failed"
          /\ settle(r, "rejected", "add")
       \/ /\ promptFulfilled(req[r]) /\ quickAddFulfilled(req[r])
          /\ IF req[r].baseDir = NULL THEN settle(r, "fulfilled", "")
             ELSE folderChosen(r)
    /\ UNCHANGED <<exportService, activeExports, serviceAvailable, serviceBusy,
                   assets, exportEnabled, tasks, batch, resets, names, filenames,
                   startup, edit, metadata, docStore, menu, tool>>

\* The targets whose assets the request marks and exports.
requestTargets(rq) ==
    IF rq.kind = "document" THEN {ROOT} ELSE Range(rq.layersList)

\* _setAssetsRequested: SET_AS_REQUESTED is dispatched; _setServiceBusy(true)
\* then issues its dispatch.
setAssetsRequested(r) ==
    /\ req[r].pc = "requesting"
    /\ assets' = setAsRequested(assets, requestTargets(req[r]))
    /\ req' = [req EXCEPT ![r].pc = "busying", ![r].wrote = @ \cup {"requested"}]
    /\ UNCHANGED <<exportService, lastFolderPath, activeExports, serviceAvailable,
                   serviceBusy, exportEnabled, tasks, batch, resets, names,
                   filenames, startup, edit, metadata, docStore, menu, tool>>

\* _setServiceBusy(true): SET_STATE_PROPERTY is dispatched.
setServiceBusy(r) ==
    /\ req[r].pc = "busying"
    /\ serviceBusy' = TRUE
    /\ req' = [req EXCEPT ![r].pc = "launching", ![r].wrote = @ \cup {"busy"}]
    /\ UNCHANGED <<exportService, lastFolderPath, activeExports, serviceAvailable,
                   assets, exportEnabled, tasks, batch, resets, names, filenames,
                   startup, edit, metadata, docStore, menu, tool>>

\* A variant of launchLayers without .return(quickAddPromise): the tasks are
\* launched whatever the state of addAsset.
launchLayersNoReturn(r) ==
    /\ req[r].pc = "launching" /\ req[r].kind = "layers"
    /\ launchExports(r, layerExportList(r, assets, req[r].layersList,
                           baseFilenames(layerNames(req[r].layersList), EmptyMap),
                           lastFolderPath, 1))
    /\ UNCHANGED <<exportService, lastFolderPath, serviceAvailable, serviceBusy,
                   assets, exportEnabled, resets, names, filenames, startup,
                   edit, metadata, docStore, menu, tool>>

\* exportLayerAssets: the handler behind .return(quickAddPromise). It runs
\* when addAsset is fulfilled; when addAsset is rejected so is the request.
launchLayers(r) ==
    /\ req[r].pc = "launching" /\ req[r].kind = "layers"
    /\ \/ /\ req[r].add = "failed"
          /\ req' = [req EXCEPT ![r].pc = "done", ![r].result = "rejected",
                                ![r].error = "add"]
          /\ UNCHANGED <<tasks, activeExports, batch>>
       \/ /\ quickAddFulfilled(req[r])
          /\ launchExports(r, layerExportList(r, assets, req[r].layersList,
                                  baseFilenames(layerNames(req[r].layersList), EmptyMap),
                                 lastFolderPath, 1))
    /\ UNCHANGED <<exportService, lastFolderPath, serviceAvailable, serviceBusy,
                   assets, exportEnabled, resets, names, filenames, startup,
                   edit, metadata, docStore, menu, tool>>

\* exportDocumentAssets: the handler behind _setServiceBusy(true).
launchDocument(r) ==
    /\ req[r].pc = "launching" /\ req[r].kind = "document"
    /\ launchExports(r, exportList(r, ROOT, assets[ROOT], lastFolderPath,
                                   DocumentName))
    /\ UNCHANGED <<exportService, lastFolderPath, serviceAvailable, serviceBusy,
                   assets, exportEnabled, resets, names, filenames, startup,
                   edit, metadata, docStore, menu, tool>>

\* ----------------------------------------------------------- export tasks

\* The value of a property that is not there: pathArray[0] of an empty array.
UNDEFINED == "undefined"

\* pathArray[0] of the worker's answer.
firstPath(task, answer) ==
    IF answer = "paths" THEN task.dir \o "/" \o task.filename ELSE UNDEFINED

\* A variant of workerReply without the rejection handler and the catch: an
\* error of the worker rejects the promise of the task.
workerReplyNoHandler(t, answer) ==
    /\ t \in unsettled
    /\ tasks' = [tasks EXCEPT ![t] =
          IF answer = "error"
          THEN [@ EXCEPT !.st = "synced", !.promise = "rejected"]
          ELSE [@ EXCEPT !.st = "replied", !.promise = "fulfilled",
                         !.status = "STABLE",
                         !.filePath = firstPath(tasks[t], answer)]]
    /\ UNCHANGED <<exportService, lastFolderPath, activeExports, serviceAvailable,
                   serviceBusy, assets, exportEnabled, req, batch, resets, names,
                   filenames, startup, edit, metadata, docStore, menu, tool>>

\* _exportAsset, the handlers of the worker's answer: updateExportAsset is
\* called (not returned), so the promise of the task is fulfilled here, after
\* an error of the worker too; updateExportAsset builds its payload and issues
\* the dispatch of ASSET_CHANGED.
workerReply(t, answer) ==
    /\ t \in unsettled
    /\ tasks' = [tasks EXCEPT ![t] =
          IF answer = "error"
          THEN [@ EXCEPT !.st = "replied", !.promise = "fulfilled",
                         !.status = "ERROR", !.filePath = ""]
          ELSE [@ EXCEPT !.st = "replied", !.promise = "fulfilled",
                         !.status = "STABLE",
                         !.filePath = firstPath(tasks[t], answer)]]
    /\ UNCHANGED <<exportService, lastFolderPath, activeExports, serviceAvailable,
                   serviceBusy, assets, exportEnabled, req, batch, resets, names,
                   filenames, startup, edit, metadata, docStore, menu, tool>>

\* updateExportAsset of a task after its dispatch of ASSET_CHANGED, with
\* suppressHistory and suppressErrors set: _syncExportMetadata issues the
\* metadata write of the task's target, or throws, which the catch logs.
taskSyncCalled(task, store) ==
    LET write == syncExportMetadata(store, exportEnabled, docStore,
                                    {task.target}, TRUE)
    IN  IF write.throws THEN [task EXCEPT !.st = "syncFailed"]
        ELSE [task EXCEPT !.st = "syncing", !.write = write]

\* The locks of updateExportAsset (it writes JS_EXPORT and PS_DOC) are free
\* for task t: no other task's updateExportAsset, no asset operation and no
\* export request is running.
updateLocksFree(t) ==
    /\ \A u \in 1..Len(tasks) : u # t => tasks[u].st # "syncing"
    /\ edit.pc = "idle"
    /\ \A r \in Requests : req[r].pc # "idle" => req[r].result # "pending"

\* A variant of updateExportAsset whose payload names every asset of the
\* target: the outcome of one task is written to all of them.
updateExportAssetEveryIndex(t) ==
    /\ t \in 1..Len(tasks) /\ tasks[t].st = "replied"
    /\ updateLocksFree(t)
    /\ assets' = [assets EXCEPT ![tasks[t].target] =
                      [i \in 1..Len(@) |->
                          [@[i] EXCEPT !.status = tasks[t].status,
                                       !.filePath = tasks[t].filePath]]]
    /\ tasks' = [tasks EXCEPT ![t] = taskSyncCalled(@, assets')]
    /\ UNCHANGED <<exportService, lastFolderPath, activeExports, serviceAvailable,
                   serviceBusy, exportEnabled, req, batch, resets, names, filenames,
                   startup, edit, metadata, docStore, menu, tool>>

\* updateExportAsset, called by the task as an action of its own, runs when
\* its locks are free: ASSET_CHANGED is dispatched and _syncExportMetadata
\* issues the metadata write; an error is logged only, since the task passes
\* suppressErrors.
updateExportAsset(t) ==
    /\ t \in 1..Len(tasks) /\ tasks[t].st = "replied"
    /\ updateLocksFree(t)
    /\ assets' = assetChanged(assets, {tasks[t].target}, tasks[t].index,
                              tasks[t].status, tasks[t].filePath)
    /\ tasks' = [tasks EXCEPT ![t] = taskSyncCalled(@, assets')]
    /\ UNCHANGED <<exportService, lastFolderPath, activeExports, serviceAvailable,
                   serviceBusy, exportEnabled, req, batch, resets, names, filenames,
                   startup, edit, metadata, docStore, menu, tool>>

\* The metadata write of updateExportAsset ends; with suppressErrors an error
\* of it is logged only.
updateSynced(t, ok) ==
    /\ t \in 1..Len(tasks) /\ tasks[t].st = "syncing"
    /\ tasks' = [tasks EXCEPT ![t].st = IF ok THEN "synced" ELSE "syncFailed",
                              ![t].write = NoWrite]
    /\ metadata' = IF ok THEN batchPlayed(metadata, tasks[t].write) ELSE metadata
    /\ UNCHANGED <<exportService, lastFolderPath, activeExports, serviceAvailable,
                   serviceBusy, assets, exportEnabled, req, batch, resets, names,
                   filenames, startup, edit, docStore, menu, tool>>

\* ------------------------------------------------------------ the BatchJob

\* Promise.all of the tasks of the batch is fulfilled: every task has settled.
allSettled(b) == tasksOf(b) \cap unsettled = {}

\* A variant of batchFinally that does not wait for Promise.all of the tasks.
batchFinallyNoWait(b) ==
    /\ batch[b] = "running"
    /\ activeExports' = 0
    /\ batch' = [batch EXCEPT ![b] = "clearing"]
    /\ UNCHANGED <<exportService, lastFolderPath, serviceAvailable, serviceBusy,
                   assets, exportEnabled, req, tasks, resets, names, filenames,
                   startup, edit, metadata, docStore, menu, tool>>

\* _batchExports, the finally handler: the marker is cleared and
\* _setServiceBusy(false) issues its dispatch.
batchFinally(b) ==
    /\ batch[b] = "running"
    /\ allSettled(b)
    /\ activeExports' = 0
    /\ batch' = [batch EXCEPT ![b] = "clearing"]
    /\ UNCHANGED <<exportService, lastFolderPath, serviceAvailable, serviceBusy,
                   assets, exportEnabled, req, tasks, resets, names, filenames,
                   startup, edit, metadata, docStore, menu, tool>>

\* _setServiceBusy(false): SET_STATE_PROPERTY is dispatched.
batchBusyCleared(b) ==
    /\ batch[b] = "clearing"
    /\ serviceBusy' = FALSE
    /\ batch' = [batch EXCEPT ![b] = "done"]
    /\ UNCHANGED <<exportService, lastFolderPath, activeExports, serviceAvailable,
                   assets, exportEnabled, req, tasks, resets, names, filenames,
                   startup, edit, metadata, docStore, menu, tool>>

\* -------------------------------------------------------- asset operations

\* What the asset operations leave alone.
notEdit == <<exportService, lastFolderPath, activeExports, serviceAvailable,
             serviceBusy, req, tasks, batch, resets, names, filenames, startup,
             docStore, menu, tool>>

\* An asset operation may be called: none is running, and neither an
\* updateExportAsset of a task nor an export request, whose locks every asset
\* operation needs (the requests write JS_EXPORT and, through promptForFolder,
\* all the locks).
MayEdit ==
    /\ edit.pc = "idle" /\ edit.count < MaxEdits
    /\ \A t \in 1..Len(tasks) : tasks[t].st # "syncing"
    /\ \A r \in Requests : req[r].pc # "idle" => req[r].result # "pending"

\* The call of an asset operation, as a record.
editCall(op, pc, layers, targets, assetIndex, scales, suppressErrors) ==
    [pc |-> pc, op |-> op, layers |-> layers, targets |-> targets,
     index |-> assetIndex, scales |-> scales, suffixes |-> <<>>,
     formats |-> <<>>,
     suppressErrors |-> suppressErrors,
     sync |-> "none", write |-> NoWrite, history |-> {}, next |-> NoNext,
     result |-> "pending", error |-> "", count |-> edit.count + 1]

\* The operation ends here, fulfilled or rejected.
editSettled(result, error) ==
    [edit EXCEPT !.pc = "idle", !.result = result, !.error = error]

\* The asset operation calls _syncExportMetadata for its targets once its
\* dispatch has been fulfilled: the metadata write is issued, or the call
\* throws, which rejects the operation unless suppressErrors is set.
\* dispatched is the event of the dispatch when it is one of a history group.
editSyncCalled(store, suppressHistory, dispatched) ==
    LET write == syncExportMetadata(store, exportEnabled, docStore,
                                    edit.targets, suppressHistory)
    IN  IF write.throws
        THEN [(IF edit.suppressErrors THEN editSettled("fulfilled", "")
               ELSE editSettled("rejected", "sync")) EXCEPT
                 !.sync = "failed", !.history = @ \cup dispatched]
        ELSE [edit EXCEPT !.pc = "syncing", !.write = write,
                          !.history = @ \cup dispatched
                                        \cup (IF write.history THEN {"metadata"}
                                              ELSE {})]

\* The event of updateExportAsset, when it is one of a history group.
assetChangedEvent(suppressHistory) ==
    IF suppressHistory THEN {} ELSE {"ASSET_CHANGED"}

\* addAsset called on its own, with props (the scales of the new assets) or
\* without: index and default scale are computed, and for layers the dispatch
\* of LAYER_EXPORT_ENABLED_CHANGED is issued.
addAssetCall(layers, props) ==
    /\ MayEdit
    /\ LET supported   == filterExportable(layers)
           exportsList == IF layers # <<>> THEN getUniformAssetsOnly(assets, supported)
                          ELSE assets[ROOT]
           assetIndex  == IF layers # <<>>
                          THEN getLastUniformAssetIndex(assets, supported) + 1
                          ELSE Len(exportsList)
       IN  edit' = editCall("add", IF layers # <<>> THEN "enabling" ELSE "landing",
                            supported,
                            IF layers # <<>> THEN Range(supported) ELSE {ROOT},
                            assetIndex,
                            IF props = <<>> THEN <<nextScale(exportsList)>> ELSE props,
                            FALSE)
    /\ UNCHANGED <<assets, exportEnabled>>
    /\ UNCHANGED metadata
    /\ UNCHANGED notEdit

\* updateExportAsset called on its own with a scale as props: the payload is
\* built and the dispatch of ASSET_CHANGED is issued.
updateAssetCall(layers, assetIndex, scale, suppressErrors) ==
    /\ MayEdit
    /\ edit' = editCall("update", "landing", layers,
                        IF layers # <<>> THEN Range(layers) ELSE {ROOT},
                        assetIndex, <<scale>>, suppressErrors)
    /\ UNCHANGED <<assets, exportEnabled>>
    /\ UNCHANGED metadata
    /\ UNCHANGED notEdit

\* updateLayerAssetSuffix: updateExportAsset is transferred with the suffix
\* as props, and the dispatch of ASSET_CHANGED is issued.
updateLayerAssetSuffix(layers, assetIndex, suffix) ==
    /\ MayEdit
    /\ edit' = [editCall("update", "landing", layers,
                         IF layers # <<>> THEN Range(layers) ELSE {ROOT},
                         assetIndex, <<>>, FALSE) EXCEPT
                  !.suffixes = <<suffix>>]
    /\ UNCHANGED <<assets, exportEnabled>>
    /\ UNCHANGED metadata
    /\ UNCHANGED notEdit

\* updateLayerAssetFormat: updateExportAsset is transferred with the format
\* as props, and the dispatch of ASSET_CHANGED is issued.
updateLayerAssetFormat(layers, assetIndex, format) ==
    /\ MayEdit
    /\ edit' = [editCall("update", "landing", layers,
                         IF layers # <<>> THEN Range(layers) ELSE {ROOT},
                         assetIndex, <<>>, FALSE) EXCEPT
                  !.formats = <<format>>]
    /\ UNCHANGED <<assets, exportEnabled>>
    /\ UNCHANGED metadata
    /\ UNCHANGED notEdit

\* deleteExportAsset: the dispatch of DELETE_ASSET is issued.
deleteExportAsset(layers, assetIndex) ==
    /\ MayEdit
    /\ edit' = editCall("delete", "landing", layers,
                        IF layers # <<>> THEN Range(layers) ELSE {ROOT},
                        assetIndex, <<>>, FALSE)
    /\ UNCHANGED <<assets, exportEnabled>>
    /\ UNCHANGED metadata
    /\ UNCHANGED notEdit

\* getDocumentExports(documentID, true).getLayerExports(layerID): the assets
\* of the layer, none when the export store holds no DocumentExports of the
\* document (a new, empty one is made).
getLayerExports(store, doc, layerID) ==
    IF doc.exports THEN store[layerID] ELSE <<>>

\* addDefaultAsset: rejected when the document is not found; for a layer
\* that is found and has no assets in the export store the dispatch of
\* LAYER_EXPORT_ENABLED_CHANGED is issued, to be followed by
\* updateExportAsset at index 0 with empty props; otherwise nothing is done.
addDefaultAsset(layerID) ==
    /\ MayEdit
    /\ edit' = IF ~docStore.found
               THEN [editCall("default", "idle", <<layerID>>, {layerID},
                              0, <<>>, FALSE) EXCEPT !.result = "rejected",
                                                     !.error = "document"]
               ELSE IF /\ layerID \in docStore.layers
                       /\ getLayerExports(assets, docStore, layerID) = <<>>
               THEN editCall("default", "enabling", <<layerID>>, {layerID},
                             0, <<>>, FALSE)
               ELSE [editCall("default", "idle", <<layerID>>, {layerID},
                              0, <<>>, FALSE) EXCEPT !.result = "fulfilled"]
    /\ UNCHANGED <<assets, exportEnabled>>
    /\ UNCHANGED metadata
    /\ UNCHANGED notEdit

\* LAYER_EXPORT_ENABLED_CHANGED of addAsset or addDefaultAsset is dispatched;
\* the dispatch of ASSET_ADDED or of ASSET_CHANGED is issued.
editEnableDispatched ==
    /\ edit.pc = "enabling"
    /\ exportEnabled' = [l \in LayerIDs |-> exportEnabled[l] \/ l \in edit.targets]
    /\ edit' = [edit EXCEPT !.pc = "landing",
                            !.history = @ \cup {"LAYER_EXPORT_ENABLED_CHANGED"}]
    /\ UNCHANGED assets
    /\ UNCHANGED metadata
    /\ UNCHANGED notEdit

\* _insertAssetsAtIndex of addAsset: ASSET_ADDED is dispatched with the
\* assetIndex and the props of the call, and _syncExportMetadata issues the
\* metadata write.
insertAssetsLanded ==
    /\ edit.pc = "landing" /\ edit.op \in {"add", "enable"}
    /\ assets' = assetsAdded(assets, edit.targets, edit.index, edit.scales)
    /\ edit' = editSyncCalled(assets', FALSE, {"ASSET_ADDED"})
    /\ UNCHANGED exportEnabled
    /\ UNCHANGED metadata
    /\ UNCHANGED notEdit

\* A variant of deleteLanded that does not call _syncExportMetadata: the
\* operation is fulfilled when DELETE_ASSET is dispatched.
deleteLandedNoSync ==
    /\ edit.pc = "landing" /\ edit.op = "delete"
    /\ assets' = assetDeleted(assets, edit.targets, edit.index)
    /\ edit' = editSettled("fulfilled", "")
    /\ UNCHANGED exportEnabled
    /\ UNCHANGED metadata
    /\ UNCHANGED notEdit

\* deleteExportAsset: DELETE_ASSET is dispatched and _syncExportMetadata
\* issues the metadata write.
deleteLanded ==
    /\ edit.pc = "landing" /\ edit.op = "delete"
    /\ assets' = assetDeleted(assets, edit.targets, edit.index)
    /\ edit' = editSyncCalled(assets', FALSE, {"DELETE_ASSET"})
    /\ UNCHANGED exportEnabled
    /\ UNCHANGED metadata
    /\ UNCHANGED notEdit

\* A variant of updateLanded without the call of _syncExportMetadata: the
\* operation is fulfilled when ASSET_CHANGED is dispatched.
updateLandedNoSync ==
    /\ edit.pc = "landing" /\ edit.op \in {"update", "default"}
    /\ assets' = propsChanged(assets, edit.targets, edit.index, edit.scales,
                              edit.suffixes, edit.formats)
    /\ edit' = editSettled("fulfilled", "")
    /\ UNCHANGED exportEnabled
    /\ UNCHANGED metadata
    /\ UNCHANGED notEdit

\* updateExportAsset: ASSET_CHANGED is dispatched and _syncExportMetadata
\* issues the metadata write; when it throws, the catch logs the error if
\* suppressErrors is set and throws "Failed to update asset" otherwise.
updateLanded ==
    /\ edit.pc = "landing" /\ edit.op \in {"update", "default"}
    /\ assets' = propsChanged(assets, edit.targets, edit.index, edit.scales,
                              edit.suffixes, edit.formats)
    /\ edit' = editSyncCalled(assets', edit.op = "default",
                              assetChangedEvent(edit.op = "default"))
    /\ UNCHANGED exportEnabled
    /\ UNCHANGED metadata
    /\ UNCHANGED notEdit

\* setLayerExportEnabled(document, layers, exportEnabled). Enabling, addAsset
\* is transferred for the layers without assets, which keeps the exportable
\* ones of them and gives each a default asset. Unless every layer was
\* without assets, LAYER_EXPORT_ENABLED_CHANGED for all the layers and a
\* metadata write follow the quick-add; otherwise the quick-add is all.
\* Enabling when the export store holds no DocumentExports of the document,
\* the call of filterLayersWithoutExports on undefined throws a TypeError out
\* of the action.
setLayerExportEnabled(layers, enabled) ==
    /\ MayEdit
    /\ LET without   == IF enabled
                        THEN filterLayersWithoutExports(assets, layers) ELSE <<>>
           supported == filterExportable(without)
           flags     == ~enabled \/ Len(layers) > Len(without)
           next      == [pending |-> flags, layers |-> layers,
                         exportEnabled |-> enabled, without |-> without]
           called    == [editCall("enable", "idle", layers, Range(layers), 0,
                                  <<>>, FALSE) EXCEPT !.next = next]
       IN  edit' =
             IF enabled /\ ~docStore.exports
             THEN [called EXCEPT !.next.pending = FALSE, !.next.without = <<>>,
                                 !.result = "threw", !.error = "TypeError"]
             ELSE IF without # <<>>
             THEN [called EXCEPT
                     !.pc = "enabling", !.layers = supported,
                     !.targets = Range(supported),
                     !.index = getLastUniformAssetIndex(assets, supported) + 1,
                     !.scales = <<nextScale(getUniformAssetsOnly(assets,
                                                                 supported))>>]
             ELSE IF flags THEN [called EXCEPT !.pc = "flagging"]
             ELSE [called EXCEPT !.result = "fulfilled"]
    /\ UNCHANGED <<assets, exportEnabled>>
    /\ UNCHANGED metadata
    /\ UNCHANGED notEdit

\* setLayerExportEnabled: LAYER_EXPORT_ENABLED_CHANGED is dispatched for all
\* the layers of the call, and _syncExportMetadata issues the metadata write
\* of these layers with suppressHistory set, or throws.
flagDispatched ==
    /\ edit.pc = "flagging"
    /\ exportEnabled' = [l \in LayerIDs |->
                            IF l \in Range(edit.next.layers)
                            THEN edit.next.exportEnabled ELSE exportEnabled[l]]
    /\ LET flagged == [edit EXCEPT
                         !.targets = Range(edit.next.layers),
                         !.next.pending = FALSE,
                         !.history = @ \cup {"LAYER_EXPORT_ENABLED_CHANGED"}]
           write   == syncExportMetadata(assets, exportEnabled', docStore,
                                         flagged.targets, TRUE)
       IN  edit' = IF write.throws
                   THEN [flagged EXCEPT !.pc = "idle", !.result = "rejected",
                                        !.error = "sync", !.sync = "failed"]
                   ELSE [flagged EXCEPT !.pc = "syncing", !.write = write]
    /\ UNCHANGED assets
    /\ UNCHANGED metadata
    /\ UNCHANGED notEdit

\* A variant of editSynced in which an error of _syncExportMetadata is logged
\* only, whether suppressErrors is set or not.
editSyncedSwallows(ok) ==
    /\ edit.pc = "syncing"
    /\ edit' = [editSettled("fulfilled", "") EXCEPT
                   !.sync = IF ok THEN "ok" ELSE "failed", !.write = NoWrite]
    /\ metadata' = IF ok THEN batchPlayed(metadata, edit.write) ELSE metadata
    /\ UNCHANGED <<assets, exportEnabled>>
    /\ UNCHANGED notEdit

\* _syncExportMetadata of an asset operation ends. An error of it rejects
\* the operation, except in updateExportAsset with suppressErrors. When the
\* quick-add of setLayerExportEnabled is fulfilled and the flags are still
\* to be set, LAYER_EXPORT_ENABLED_CHANGED is issued.
editSynced(ok) ==
    /\ edit.pc = "syncing"
    /\ edit' = [(IF ok /\ edit.next.pending THEN [edit EXCEPT !.pc = "flagging"]
                 ELSE IF ok \/ edit.suppressErrors THEN editSettled("fulfilled", "")
                 ELSE editSettled("rejected", "sync")) EXCEPT
                   !.sync = IF ok THEN "ok" ELSE "failed", !.write = NoWrite]
    /\ metadata' = IF ok THEN batchPlayed(metadata, edit.write) ELSE metadata
    /\ UNCHANGED <<assets, exportEnabled>>
    /\ UNCHANGED notEdit

\* ------------------------------------------------------------------ reset

\* onReset, its synchronous part: the folder and the marker are cleared and,
\* when a connection is stored, its close() is called.
onReset ==
    /\ resets.count < MaxResets
    /\ ~resets.closing
    /\ lastFolderPath' = NULL
    /\ activeExports' = 0
    /\ resets' = [count   |-> resets.count + 1,
                  closing |-> exportService # "null",
                  closes  |-> resets.closes + (IF exportService # "null" THEN 1 ELSE 0),
                  result  |-> IF exportService # "null" THEN "pending"
                              ELSE "fulfilled"]
    /\ UNCHANGED <<exportService, serviceAvailable, serviceBusy, assets,
                   exportEnabled, req, tasks, batch, names, filenames,
                   startup, edit, metadata, docStore, menu, tool>>

\* A variant of resetClosed with the handler in then instead of finally: the
\* connection is dropped only when close() is fulfilled.
resetClosedOnSuccessOnly(ok) ==
    /\ resets.closing
    /\ exportService' = IF ok THEN "null" ELSE exportService
    /\ resets' = [resets EXCEPT !.closing = FALSE,
                                !.result = IF ok THEN "fulfilled" ELSE "rejected"]
    /\ UNCHANGED <<lastFolderPath, activeExports, serviceAvailable, serviceBusy,
                   assets, exportEnabled, req, tasks, batch, names, filenames,
                   startup, edit, metadata, docStore, menu, tool>>

\* close() ends, fulfilled or rejected: the connection is dropped in the
\* finally handler and the promise of onReset settles as close() did.
resetClosed(ok) ==
    /\ resets.closing
    /\ exportService' = "null"
    /\ resets' = [resets EXCEPT !.closing = FALSE,
                                !.result = IF ok THEN "fulfilled" ELSE "rejected"]
    /\ UNCHANGED <<lastFolderPath, activeExports, serviceAvailable, serviceBusy,
                   assets, exportEnabled, req, tasks, batch, names, filenames,
                   startup, edit, metadata, docStore, menu, tool>>

\* -------------------------------------------------------- specification

\* The asynchronous steps of the requests, the tasks and the batches, with
\* the answers of the environment drawn from the given sets.
Steps(r, dialogAnswers, failures) ==
    \/ setServiceAvailable(r)
    \/ addEnableDispatched(r)
    \/ insertAssetsAtIndex(r)
    \/ \E ok \in failures : addSynced(r, ok)
    \/ \E ok \in failures : suspendDone(r, ok)
    \/ \E answer \in dialogAnswers : dialogDone(r, answer)
    \/ \E ok \in failures : restoreDone(r, ok)
    \/ layerFolderHandler(r)
    \/ documentJoinHandler(r)
    \/ setAssetsRequested(r)
    \/ setServiceBusy(r)
    \/ launchLayers(r)
    \/ launchDocument(r)
    \/ batchFinally(r)
    \/ batchBusyCleared(r)

TaskSteps(t, workerAnswers, failures) ==
    \/ \E answer \in workerAnswers : workerReply(t, answer)
    \/ updateExportAsset(t)
    \/ \E ok \in failures : updateSynced(t, ok)

\* Export requests against a service that was started, with no reset. The
\* r-th folder dialog offers the r-th folder.
DialogAnswersOf(r) == {IF r = 1 THEN "/a" ELSE "/b", "cancel", "dialogFailed"}

Next ==
    \/ \E r \in Requests :
          \/ \E layers \in LayerArgs : exportLayerAssets(r, layers)
          \/ exportDocumentAssets(r)
          \/ Steps(r, DialogAnswersOf(r), BOOLEAN)
    \/ \E t \in 1..Len(tasks) : TaskSteps(t, {"paths", "error"}, BOOLEAN)

Spec == InitStarted /\ [][Next]_vars

\* All operations, resets included, with the answers of the environment
\* narrowed: the policies and the metadata writes do not fail.
NextService ==
    \/ \E r \in Requests :
          \/ exportLayerAssets(r, <<1>>)
          \/ exportDocumentAssets(r)
          \/ copyFile(r)
          \/ deleteFiles(r)
          \/ \E ok \in BOOLEAN : fileReply(r, ok)
          \/ Steps(r, {"/a", "cancel"}, {TRUE})
    \/ \E t \in 1..Len(tasks) : TaskSteps(t, {"paths"}, {TRUE})
    \/ onReset
    \/ \E ok \in BOOLEAN : resetClosed(ok)

SpecService == InitStarted /\ [][NextService]_vars

\* The export tasks in full: the folder dialog and the metadata writes of the
\* requests do not fail, and the worker answers a task with a list of paths,
\* with an empty list or with an error.
NextTasks ==
    \/ \E r \in Requests :
          \/ exportLayerAssets(r, <<1, 2, 3>>)
          \/ exportDocumentAssets(r)
          \/ Steps(r, {"/a"}, {TRUE})
    \/ \E t \in 1..Len(tasks) :
          TaskSteps(t, {"paths", "empty", "error"}, BOOLEAN)

SpecTasks == InitStarted /\ [][NextTasks]_vars

\* The handshake of afterStartup step by step, with export requests that may
\* be called before, while and after it runs.
NextStartup ==
    \/ \E debug \in BOOLEAN : preCheck(debug)
    \/ quickCheckPort
    \/ \E ok \in BOOLEAN : quickCheckInit(ok)
    \/ \E enabled \in BOOLEAN : getGeneratorStatus(enabled)
    \/ \E ok \in BOOLEAN : setGeneratorStatus(ok)
    \/ getWebSocketPort
    \/ \E ok \in BOOLEAN : initService(ok)
    \/ \E ok \in BOOLEAN : startupTap(ok)
    \/ serviceAvailableDispatched
    \/ \E r \in Requests :
          \/ exportLayerAssets(r, <<1>>)
          \/ exportDocumentAssets(r)
          \/ Steps(r, {"/a", "cancel"}, {TRUE})
    \/ \E t \in 1..Len(tasks) : TaskSteps(t, {"paths"}, {TRUE})

SpecStartup == Init /\ [][NextStartup]_vars

\* The handshake of afterStartup with resets: onReset may be called before,
\* while and after a run, and afterStartup is called again after a reset.
NextRestart ==
    \/ \E debug \in BOOLEAN : preCheck(debug)
    \/ quickCheckPort
    \/ \E ok \in BOOLEAN : quickCheckInit(ok)
    \/ \E enabled \in BOOLEAN : getGeneratorStatus(enabled)
    \/ \E ok \in BOOLEAN : setGeneratorStatus(ok)
    \/ getWebSocketPort
    \/ \E ok \in BOOLEAN : initService(ok)
    \/ \E ok \in BOOLEAN : startupTap(ok)
    \/ serviceAvailableDispatched
    \/ onReset
    \/ \E ok \in BOOLEAN : resetClosed(ok)

SpecRestart == Init /\ [][NextRestart]_vars

\* The asset operations, called before and after one export request of
\* layer 2 and while its tasks run. The
\* service is ready, layer 2 has two assets, layer 1 and the root have one
\* and layer 3 has none.
InitEdits ==
    /\ exportService = "ready"
    /\ lastFolderPath = NULL
    /\ activeExports = 0
    /\ serviceAvailable = TRUE
    /\ serviceBusy = FALSE
    /\ assets = [t \in Targets |->
                     IF t = 2 THEN <<NewAsset(10), NewAsset(20)>>
                     ELSE IF t \in {ROOT, 1} THEN <<NewAsset(10)>>
                     ELSE <<>>]
    /\ exportEnabled = [l \in LayerIDs |-> l = 2]
    /\ req = [r \in Requests |-> IdleRequest]
    /\ tasks = <<>>
    /\ batch = [r \in Requests |-> "none"]
    /\ resets = NoResets
    /\ names = <<>>
    /\ filenames = <<>>
    /\ startup = IdleStartup
    /\ edit = IdleEdit
    /\ metadata = [t \in Targets |-> exportsMetadata(assets, exportEnabled, t)]
    /\ docStore = WholeDocument
    /\ menu = IdleMenu
    /\ tool = IdleTool

\* The layers an asset operation is called on; none is the document root.
EditLayers == {<<>>, <<1>>, <<2>>}

NextEdits ==
    \/ \E layers \in EditLayers \cup {<<1, 2>>}, props \in {<<>>, <<30, 40>>} :
          addAssetCall(layers, props)
    \/ \E layers \in EditLayers, assetIndex \in 0..1, suppressErrors \in BOOLEAN :
          updateAssetCall(layers, assetIndex, 15, suppressErrors)
    \/ \E layers \in EditLayers, assetIndex \in 0..1 :
          deleteExportAsset(layers, assetIndex)
    \/ \E assetIndex \in 0..2 : updateLayerAssetSuffix(<<2>>, assetIndex, "-big")
    \/ \E layers \in {<<>>, <<2>>}, format \in {"jpg", "svg"} :
          updateLayerAssetFormat(layers, 0, format)
    \/ \E layerID \in {2, 3} : addDefaultAsset(layerID)
    \/ editEnableDispatched
    \/ insertAssetsLanded
    \/ deleteLanded
    \/ updateLanded
    \/ \E ok \in BOOLEAN : editSynced(ok)
    \/ exportLayerAssets(1, <<2>>)
    \/ addEnableDispatched(1)
    \/ insertAssetsAtIndex(1)
    \/ addSynced(1, TRUE)
    \/ suspendDone(1, TRUE)
    \/ dialogDone(1, "/a")
    \/ restoreDone(1, TRUE)
    \/ layerFolderHandler(1)
    \/ setAssetsRequested(1)
    \/ setServiceBusy(1)
    \/ launchLayers(1)
    \/ batchFinally(1)
    \/ batchBusyCleared(1)
    \/ \E t \in 1..Len(tasks) : TaskSteps(t, {"paths"}, {TRUE})

SpecEdits == InitEdits /\ [][NextEdits]_vars

\* An export request of layers 1 and 2 and a later one of layer 1, with the
\* tasks in full: layer 2 has two assets, so that two tasks update the same
\* list; the worker answers a task with paths or with an error, and a
\* metadata write of a task succeeds or fails.
NextSync ==
    \/ \E r \in Requests :
          \/ exportLayerAssets(r, IF r = 1 THEN <<1, 2>> ELSE <<1>>)
          \/ suspendDone(r, TRUE)
          \/ dialogDone(r, "/a")
          \/ restoreDone(r, TRUE)
          \/ layerFolderHandler(r)
          \/ setAssetsRequested(r)
          \/ setServiceBusy(r)
          \/ launchLayers(r)
          \/ batchFinally(r)
          \/ batchBusyCleared(r)
    \/ \E t \in 1..Len(tasks) : TaskSteps(t, {"paths", "error"}, BOOLEAN)

SpecSync == InitEdits /\ [][NextSync]_vars

\* What the document store and the export store may hold when an asset
\* operation runs: the document or its DocumentExports may be missing, and
\* so may layer 1, or every layer.
DocStores ==
    {[found |-> f, exports |-> e, layers |-> ls] :
        f \in BOOLEAN, e \in BOOLEAN, ls \in {LayerIDs, LayerIDs \ {1}, {}}}

\* The asset operations of SpecEdits, on stores that may miss the document,
\* its DocumentExports or some layers.
InitStores ==
    /\ exportService = "ready"
    /\ lastFolderPath = NULL
    /\ activeExports = 0
    /\ serviceAvailable = TRUE
    /\ serviceBusy = FALSE
    /\ assets = [t \in Targets |->
                     IF t = 2 THEN <<NewAsset(10), NewAsset(20)>>
                     ELSE IF t \in {ROOT, 1} THEN <<NewAsset(10)>>
                     ELSE <<>>]
    /\ exportEnabled = [l \in LayerIDs |-> l = 2]
    /\ req = [r \in Requests |-> IdleRequest]
    /\ tasks = <<>>
    /\ batch = [r \in Requests |-> "none"]
    /\ resets = NoResets
    /\ names = <<>>
    /\ filenames = <<>>
    /\ startup = IdleStartup
    /\ edit = IdleEdit
    /\ metadata = [t \in Targets |-> exportsMetadata(assets, exportEnabled, t)]
    /\ docStore \in DocStores
    /\ menu = IdleMenu
    /\ tool = IdleTool

\* The layers setLayerExportEnabled is called on.
EnableLayers == {<<1>>, <<2>>, <<3>>, <<1, 2>>, <<2, 3>>, <<1, 3>>}

NextStores ==
    \/ \E layers \in EditLayers \cup {<<1, 2>>}, props \in {<<>>, <<30, 40>>} :
          addAssetCall(layers, props)
    \/ \E layers \in EditLayers \cup {<<1, 2>>}, assetIndex \in 0..1,
          suppressErrors \in BOOLEAN :
          updateAssetCall(layers, assetIndex, 15, suppressErrors)
    \/ \E layers \in EditLayers \cup {<<1, 2>>}, assetIndex \in 0..1 :
          deleteExportAsset(layers, assetIndex)
    \/ \E layerID \in LayerIDs : addDefaultAsset(layerID)
    \/ \E layers \in EnableLayers, enabled \in BOOLEAN :
          setLayerExportEnabled(layers, enabled)
    \/ editEnableDispatched
    \/ insertAssetsLanded
    \/ deleteLanded
    \/ updateLanded
    \/ flagDispatched
    \/ \E ok \in BOOLEAN : editSynced(ok)

SpecStores == InitStores /\ [][NextStores]_vars

\* exportLayerAssets called with a document or without one (NULL). Without
\* one, Promise.resolve("No Document") is made and dropped and the call goes
\* on: a service that is not ready ends it as for any call, and with a ready
\* service the read of document.id throws a TypeError out of the call.
exportLayerAssetsOf(r, document, layers) ==
    IF document # NULL \/ ~serviceReady
    THEN exportLayerAssets(r, layers)
    ELSE /\ MayCall(r)
         /\ req' = [req EXCEPT ![r].pc = "done", ![r].kind = "layers",
                               ![r].whileActive = activeExports # 0,
                               ![r].result = "threw", ![r].error = "TypeError"]
         /\ UNCHANGED <<exportService, lastFolderPath, activeExports,
                        serviceAvailable, serviceBusy, assets, exportEnabled,
                        tasks, batch, resets, names, filenames, startup, edit, metadata, docStore, menu, tool>>

\* exportDocumentAssets called with a document or without one (NULL). Without
\* one it returns Promise.resolve("No Document").
exportDocumentAssetsOf(r, document) ==
    IF document # NULL
    THEN exportDocumentAssets(r)
    ELSE /\ MayCall(r)
         /\ req' = [req EXCEPT ![r].pc = "done", ![r].kind = "document",
                               ![r].whileActive = activeExports # 0,
                               ![r].result = "fulfilled"]
         /\ UNCHANGED <<exportService, lastFolderPath, activeExports,
                        serviceAvailable, serviceBusy, assets, exportEnabled,
                        tasks, batch, resets, names, filenames, startup, edit, metadata, docStore, menu, tool>>

\* Export requests with and without a document, against a service that is
\* started or not; every folder dialog is cancelled.
NextDocuments ==
    \/ \E r \in Requests :
          \/ \E document \in {NULL, DocumentName}, layers \in LayerArgs :
                exportLayerAssetsOf(r, document, layers)
          \/ \E document \in {NULL, DocumentName} :
                exportDocumentAssetsOf(r, document)
          \/ setServiceAvailable(r)
          \/ addEnableDispatched(r)
          \/ insertAssetsAtIndex(r)
          \/ \E ok \in BOOLEAN : addSynced(r, ok)
          \/ \E ok \in BOOLEAN : suspendDone(r, ok)
          \/ dialogDone(r, "cancel")
          \/ \E ok \in BOOLEAN : restoreDone(r, ok)
          \/ layerFolderHandler(r)
          \/ documentJoinHandler(r)

SpecDocuments == InitStarted /\ [][NextDocuments]_vars

\* exportLayerAssets of one request, with and without a layer set, on layers
\* that are flagged exportEnabled or not and have one asset or none.
InitTargets ==
    /\ exportService = "ready"
    /\ lastFolderPath = NULL
    /\ activeExports = 0
    /\ serviceAvailable = TRUE
    /\ serviceBusy = FALSE
    /\ \E withAssets \in SUBSET LayerIDs :
          assets = [t \in Targets |->
                       IF t \in withAssets THEN <<NewAsset(10)>> ELSE <<>>]
    /\ exportEnabled \in [LayerIDs -> BOOLEAN]
    /\ req = [r \in Requests |-> IdleRequest]
    /\ tasks = <<>>
    /\ batch = [r \in Requests |-> "none"]
    /\ resets = NoResets
    /\ names = <<>>
    /\ filenames = <<>>
    /\ startup = IdleStartup
    /\ edit = IdleEdit
    /\ metadata = [t \in Targets |-> exportsMetadata(assets, exportEnabled, t)]
    /\ docStore = WholeDocument
    /\ menu = IdleMenu
    /\ tool = IdleTool

\* The layer sets exportLayerAssets is called with; NoLayers is no layer set.
TargetArgs == {NoLayers, <<1>>, <<3>>, <<2, 3>>, <<1, 2, 3>>}

NextTargets ==
    \/ \E layers \in TargetArgs : exportLayerAssets(1, layers)
    \/ addEnableDispatched(1)
    \/ insertAssetsAtIndex(1)
    \/ addSynced(1, TRUE)
    \/ suspendDone(1, TRUE)
    \/ \E answer \in {"/a", "cancel"} : dialogDone(1, answer)
    \/ restoreDone(1, TRUE)
    \/ layerFolderHandler(1)
    \/ setAssetsRequested(1)
    \/ setServiceBusy(1)
    \/ launchLayers(1)
    \/ batchFinally(1)
    \/ batchBusyCleared(1)
    \/ \E t \in 1..Len(tasks) : TaskSteps(t, {"paths"}, {TRUE})

SpecTargets == InitTargets /\ [][NextTargets]_vars

\* Export requests and resets, with folder dialogs that end with one of two
\* folders, with a cancel or with an error; the policies and the metadata
\* writes do not fail.
NextFolders ==
    \/ \E r \in Requests :
          \/ exportLayerAssets(r, <<1>>)
          \/ exportDocumentAssets(r)
          \/ Steps(r, {"/a", "/b", "cancel", "dialogFailed"}, {TRUE})
    \/ \E t \in 1..Len(tasks) : TaskSteps(t, {"paths"}, {TRUE})
    \/ onReset
    \/ \E ok \in BOOLEAN : resetClosed(ok)

SpecFolders == InitStarted /\ [][NextFolders]_vars

\* The steps the program takes by itself once a request was called: the
\* callbacks of its promises, with a folder chosen in every dialog, a list of
\* paths or an error from the worker, and a metadata write of addAsset that
\* succeeds or fails.
InternalBusy ==
    \/ \E r \in Requests :
          \/ setServiceAvailable(r)
          \/ addEnableDispatched(r)
          \/ insertAssetsAtIndex(r)
          \/ \E ok \in BOOLEAN : addSynced(r, ok)
          \/ suspendDone(r, TRUE)
          \/ dialogDone(r, "/a")
          \/ restoreDone(r, TRUE)
          \/ layerFolderHandler(r)
          \/ documentJoinHandler(r)
          \/ setAssetsRequested(r)
          \/ setServiceBusy(r)
          \/ launchLayers(r)
          \/ launchDocument(r)
          \/ batchFinally(r)
          \/ batchBusyCleared(r)
    \/ \E t \in 1..Len(tasks) : TaskSteps(t, {"paths", "error"}, {TRUE})

\* The calls of the export requests, which nothing forces to happen, and the
\* internal steps.
NextBusy ==
    \/ \E r \in Requests :
          \/ exportLayerAssets(r, <<1>>)
          \/ exportDocumentAssets(r)
    \/ InternalBusy

\* Every callback that is ready to run does run, and every call of the
\* environment (policies, dialog, worker, metadata write) is answered.
SpecBusy == InitStarted /\ [][NextBusy]_vars /\ WF_vars(InternalBusy)

\* The scales of SCALES that are in S, in the order of SCALES.
RECURSIVE ScalesIn(_, _)
ScalesIn(scales, S) ==
    IF scales = <<>> THEN <<>>
    ELSE (IF Head(scales) \in S THEN <<Head(scales)>> ELSE <<>>)
         \o ScalesIn(Tail(scales), S)

\* list in reverse order.
\* The lists of assets with distinct scales, at most MaxAssets of them, in the
\* order of SCALES.
AssetLists ==
    {[k \in 1..Len(ScalesIn(SCALES, S)) |-> NewAsset(ScalesIn(SCALES, S)[k])] :
        S \in {T \in SUBSET Range(SCALES) : Cardinality(T) <= MaxAssets}}

\* addAsset without props, on the document root and on layer 1, whose lists
\* hold any assets of distinct scales, those of the root in either order.
InitScales ==
    /\ exportService = "ready"
    /\ lastFolderPath = NULL
    /\ activeExports = 0
    /\ serviceAvailable = TRUE
    /\ serviceBusy = FALSE
    /\ \E rootList \in AssetLists
                        \cup {[i \in 1..Len(l) |-> l[Len(l) + 1 - i]] :
                                 l \in AssetLists},
          layerList \in AssetLists :
          assets = [t \in Targets |->
                       IF t = ROOT THEN rootList
                       ELSE IF t = 1 THEN layerList ELSE <<>>]
    /\ exportEnabled = [l \in LayerIDs |-> FALSE]
    /\ req = [r \in Requests |-> IdleRequest]
    /\ tasks = <<>>
    /\ batch = [r \in Requests |-> "none"]
    /\ resets = NoResets
    /\ names = <<>>
    /\ filenames = <<>>
    /\ startup = IdleStartup
    /\ edit = IdleEdit
    /\ metadata = [t \in Targets |-> exportsMetadata(assets, exportEnabled, t)]
    /\ docStore = WholeDocument
    /\ menu = IdleMenu
    /\ tool = IdleTool

NextScales ==
    \/ \E layers \in {<<>>, <<1>>} : addAssetCall(layers, <<>>)
    \/ editEnableDispatched
    \/ insertAssetsLanded
    \/ editSynced(TRUE)

SpecScales == InitScales /\ [][NextScales]_vars

\* The filename derivation of a layer batch on its own: the names of the
\* resolved layers are drawn at the start and the derivation is applied once.
InitNames ==
    /\ exportService = "ready"
    /\ lastFolderPath = NULL
    /\ activeExports = 0
    /\ serviceAvailable = TRUE
    /\ serviceBusy = FALSE
    /\ assets = [t \in Targets |-> <<>>]
    /\ exportEnabled = [l \in LayerIDs |-> FALSE]
    /\ req = [r \in Requests |-> IdleRequest]
    /\ tasks = <<>>
    /\ batch = [r \in Requests |-> "none"]
    /\ resets = NoResets
    /\ names \in NameLists(MaxNames)
    /\ filenames = <<>>
    /\ startup = IdleStartup
    /\ edit = IdleEdit
    /\ metadata = [t \in Targets |-> exportsMetadata(assets, exportEnabled, t)]
    /\ docStore = WholeDocument
    /\ menu = IdleMenu
    /\ tool = IdleTool

deriveFilenames ==
    /\ names # <<>> /\ filenames = <<>>
    /\ filenames' = baseFilenames(names, EmptyMap)
    /\ UNCHANGED <<exportService, lastFolderPath, activeExports, serviceAvailable,
                   serviceBusy, assets, exportEnabled, req, tasks, batch, resets,
                   names, startup, edit, metadata, docStore, menu, tool>>

SpecNames == InitNames /\ [][deriveFilenames]_vars

\* ---------------------------------------------------------- menu commands

\* What the menu actions leave alone.
notMenu == <<exportService, lastFolderPath, activeExports, serviceAvailable,
             serviceBusy, assets, exportEnabled, req, tasks, batch, resets,
             names, filenames, startup, edit, metadata, docStore, tool>>

\* The policy store after suspendAllPolicies and after restoreAllPolicies.
policiesSuspended(m) == [m EXCEPT !.allSuspended = TRUE]

policiesRestored(m) == [m EXCEPT !.allSuspended = FALSE]

\* The menu commands native is called with: the place commands, any other
\* command, and a payload without commandID.
MenuCommands == {"place", "other", "noID"}

\* ps.performMenuCommand is called.
performMenuCommand(m) == [m EXCEPT !.pc = "performing", !.performed = @ + 1]

\* handleExecutedPlaceCommand is called: PLACE_COMMAND (executing false) is
\* issued with dispatchAsync.
handleExecutedPlaceCommand(m) == [m EXCEPT !.handler = "dispatching"]

\* The catch of native: the handler is transferred for a place command, and
\* the error is thrown again for any other.
nativeCatch(m) ==
    IF m.command = "place"
    THEN handleExecutedPlaceCommand([m EXCEPT !.pc = "handling"])
    ELSE [m EXCEPT !.pc = "idle", !.result = "rejected"]

\* native with its first handler: a payload without commandID is rejected;
\* for a place command PLACE_COMMAND (executing true) is dispatched and
\* suspendAllPolicies is transferred unless all policies are suspended; the
\* command is performed next. The action holds the native locks, so that
\* it runs when no other menu action does.
native(command) ==
    /\ menu.pc = "idle" /\ menu.handler = "none"
    /\ menu.count < MaxCommands
    /\ LET called == [menu EXCEPT !.command = command, !.result = "pending",
                                  !.count = @ + 1]
       IN  menu' =
             IF command = "noID"
             THEN [called EXCEPT !.result = "rejected"]
             ELSE IF command = "place"
             THEN IF ~menu.allSuspended
                  THEN [called EXCEPT !.pc = "suspending", !.executing = TRUE,
                                      !.suspends = @ + 1]
                  ELSE performMenuCommand([called EXCEPT !.executing = TRUE])
             ELSE performMenuCommand(called)
    /\ UNCHANGED notMenu

\* suspendAllPolicies of native ends: the command is performed, or the catch
\* runs.
menuSuspendDone(ok) ==
    /\ menu.pc = "suspending"
    /\ menu' = IF ok THEN performMenuCommand(policiesSuspended(menu))
               ELSE nativeCatch(menu)
    /\ UNCHANGED notMenu

\* ps.performMenuCommand ends: with true (a place command then leaves
\* Photoshop in the modal state of placing the layer), with false (the
\* command is not available) or with an error, which the catch takes.
performDone(outcome) ==
    /\ menu.pc = "performing"
    /\ menu' = IF outcome = "error" THEN nativeCatch(menu)
               ELSE [menu EXCEPT !.pc = "idle", !.result = "fulfilled",
                                 !.modal = @ \/ (menu.command = "place"
                                                 /\ outcome = "success")]
    /\ UNCHANGED notMenu

\* beforeStartup of the menu actions: a new _toolModalStateChangedHandler is
\* made and added to the listeners of toolModalStateChanged.
menuBeforeStartup ==
    /\ menu.startups <= MaxResets
    /\ menu' = [menu EXCEPT !.listeners = @ + 1, !.current = TRUE,
                            !.startups = @ + 1]
    /\ UNCHANGED notMenu

\* onReset of the menu actions: the handler that beforeStartup made last is
\* removed from the listeners.
menuOnReset ==
    /\ menu.resets < MaxResets
    /\ menu' = [menu EXCEPT
                  !.listeners = IF menu.current THEN @ - 1 ELSE @,
                  !.current = FALSE, !.resets = @ + 1]
    /\ UNCHANGED notMenu

\* A toolModalStateChanged event with state exit: Photoshop leaves a modal
\* state, that of a place command or another. Every registered
\* _toolModalStateChangedHandler runs, and when the place command flag is on
\* it calls handleExecutedPlaceCommand as an action of its own, which is
\* queued.
toolModalStateChanged ==
    /\ menu.exits < MaxCommands
    /\ menu' = [menu EXCEPT
                  !.modal = FALSE, !.exits = @ + 1,
                  !.queued = IF menu.executing THEN @ + menu.listeners ELSE @]
    /\ UNCHANGED notMenu

\* The modal state that a place command opened ends.
placeModalStateExit == menu.modal /\ toolModalStateChanged

\* A queued handleExecutedPlaceCommand is run, when native and the handler
\* before it have ended: PLACE_COMMAND (executing false) is issued with
\* dispatchAsync.
queuedHandlerCalled ==
    /\ menu.queued > 0
    /\ menu.pc = "idle" /\ menu.handler = "none"
    /\ menu' = handleExecutedPlaceCommand([menu EXCEPT !.queued = @ - 1])
    /\ UNCHANGED notMenu

\* handleExecutedPlaceCommand, PLACE_COMMAND is dispatched: the flag is off,
\* and restoreAllPolicies is transferred when all policies are suspended.
placeCommandDispatched ==
    /\ menu.handler = "dispatching"
    /\ menu.pc \in {"idle", "handling"}
    /\ menu' = IF menu.allSuspended
               THEN [menu EXCEPT !.executing = FALSE, !.handler = "restoring",
                                 !.restores = @ + 1]
               ELSE [menu EXCEPT !.executing = FALSE, !.handler = "none",
                                 !.pc = "idle",
                                 !.result = IF menu.pc = "handling"
                                            THEN "fulfilled" ELSE @]
    /\ UNCHANGED notMenu

\* restoreAllPolicies of handleExecutedPlaceCommand ends; transferred by
\* native, the handler settles native as it settles itself.
menuRestoreDone(ok) ==
    /\ menu.handler = "restoring"
    /\ menu' = [(IF ok THEN policiesRestored(menu) ELSE menu) EXCEPT
                   !.handler = "none", !.pc = "idle",
                   !.result = IF menu.pc = "handling"
                              THEN (IF ok THEN "fulfilled" ELSE "rejected")
                              ELSE @]
    /\ UNCHANGED notMenu

\* The steps the program takes by itself once a menu command was called, with
\* policy actions that succeed, and the end of the modal state that a place
\* command opened.
InternalMenu ==
    \/ menuSuspendDone(TRUE)
    \/ \E outcome \in {"success", "unavailable", "error"} : performDone(outcome)
    \/ placeModalStateExit
    \/ queuedHandlerCalled
    \/ placeCommandDispatched
    \/ menuRestoreDone(TRUE)

\* The menu commands, the exit events of any modal state, and the set-up and
\* the reset of the listeners.
NextMenu ==
    \/ menuBeforeStartup
    \/ menuOnReset
    \/ \E command \in MenuCommands : native(command)
    \/ menuSuspendDone(FALSE)
    \/ menuRestoreDone(FALSE)
    \/ toolModalStateChanged
    \/ InternalMenu

\* Every callback that is ready to run does run, every call of Photoshop is
\* answered, and a modal state that was entered is left; nothing forces a
\* menu command to be called.
SpecMenu == Init /\ [][NextMenu]_vars /\ WF_vars(InternalMenu)

\* ------------------------------------------------------- SuperSelectTool

\* What the handlers of the tool leave alone.
notTool == <<exportService, lastFolderPath, activeExports, serviceAvailable,
             serviceBusy, assets, exportEnabled, req, tasks, batch, resets,
             names, filenames, startup, edit, metadata, docStore, menu>>

\* A mouse event is handled.
mouseEvent(t) == [t EXCEPT !.count = @ + 1]

\* superselect.click or superselect.drag is dispatched; sinceDown counts the
\* dispatches since the last left-button mouse down.
clickDispatched(t) == [t EXCEPT !.clicks = @ + 1, !.sinceDown = @ + 1]

dragDispatched(t) == [t EXCEPT !.drags = @ + 1, !.sinceDown = @ + 1]

\* onMouseDown: a right or middle button is ignored; the left button starts
\* a drag and keeps a copy of the event, with its modifier key.
onMouseDown(button, metaKey) ==
    /\ tool.count < MaxMouse
    /\ tool' = IF button # 0 THEN mouseEvent(tool)
               ELSE [mouseEvent(tool) EXCEPT
                        !.dragging = TRUE,
                        !.dragEvent = IF metaKey THEN "leftMeta" ELSE "left",
                        !.sinceDown = 0]
    /\ UNCHANGED notTool

\* onMouseUp: the tool is cleaned up, and a click is sent when a document is
\* open and a mouse down was kept.
onMouseUp ==
    /\ tool.count < MaxMouse
    /\ LET mouseDownFlag == tool.dragEvent # NULL
           cleaned       == [mouseEvent(tool) EXCEPT !.dragging = FALSE,
                                                     !.dragEvent = NULL]
       IN  tool' = IF ~tool.currentDocument \/ ~mouseDownFlag THEN cleaned
                   ELSE clickDispatched(cleaned)
    /\ UNCHANGED notTool

\* A variant of onMouseMove that keeps dragEvent when it sends the drag.
onMouseMoveKeepsEvent ==
    /\ tool.count < MaxMouse
    /\ tool' = IF ~tool.dragging THEN mouseEvent(tool)
               ELSE IF ~tool.currentDocument
               THEN [mouseEvent(tool) EXCEPT !.dragging = FALSE]
               ELSE dragDispatched([mouseEvent(tool) EXCEPT
                                       !.dragging = FALSE,
                                       !.spaceKeyDown = FALSE])
    /\ UNCHANGED notTool

\* onMouseMove: the first move after a mouse down ends the dragging state
\* and, when a document is open, sends the drag with the event of the mouse
\* down, forgets that event and resets the space key flag.
onMouseMove ==
    /\ tool.count < MaxMouse
    /\ tool' = IF ~tool.dragging THEN mouseEvent(tool)
               ELSE IF ~tool.currentDocument
               THEN [mouseEvent(tool) EXCEPT !.dragging = FALSE]
               ELSE dragDispatched([mouseEvent(tool) EXCEPT
                                       !.dragging = FALSE,
                                       !.dragEvent = NULL,
                                       !.spaceKeyDown = FALSE])
    /\ UNCHANGED notTool

\* onKeyDown of the space bar: the flag is set when a document is open.
onKeyDown ==
    /\ tool.currentDocument /\ ~tool.spaceKeyDown
    /\ tool' = [tool EXCEPT !.spaceKeyDown = TRUE]
    /\ UNCHANGED notTool

\* onKeyUp of the space bar.
onKeyUp ==
    /\ tool.spaceKeyDown
    /\ tool' = [tool EXCEPT !.spaceKeyDown = FALSE]
    /\ UNCHANGED notTool

\* The application store gets or loses its current document.
currentDocumentChanged ==
    /\ tool' = [tool EXCEPT !.currentDocument = ~@]
    /\ UNCHANGED notTool

\* The mouse and key events of the tool in any order, with a document that is
\* opened and closed in between.
NextTool ==
    \/ \E button \in 0..2, metaKey \in BOOLEAN : onMouseDown(button, metaKey)
    \/ onMouseUp
    \/ onMouseMove
    \/ onKeyDown
    \/ onKeyUp
    \/ currentDocumentChanged

SpecTool == Init /\ [][NextTool]_vars

\* ------------------------------------------------------------------ claims

\* The export requests among the operations.
IsExport(rq) == rq.kind \in {"layers", "document"}

\* C1 (as claimed): at most one BatchJob is active: all the tasks that were
\* launched and have not settled were launched by one single export request.
C1_OneBatchInFlight ==
    \A t1, t2 \in unsettled : tasks[t1].req = tasks[t2].req

\* C2 (as claimed): an export request called while a batch is active always
\* ends as a failure returned to the caller, never as a successful completion.
C2_ConflictAlwaysRejected ==
    \A r \in Requests :
        (IsExport(req[r]) /\ req[r].whileActive /\ req[r].result # "pending")
            => req[r].result = "rejected"

\* C3 (as claimed): an export request called while a batch is active has no
\* effect at all: no folder chooser, no default asset, no asset REQUESTED, no
\* write of the busy flag or of lastFolderPath, no call of the worker.
C3_RejectedBeforeAnyEffect ==
    \A r \in Requests :
        (IsExport(req[r]) /\ req[r].whileActive)
            => (req[r].wrote = {} /\ req[r].prompt = "none" /\ req[r].add = "none")

\* C4: an operation called while the service is not ready sets
\* serviceAvailable to false and does nothing else: every step of it leaves
\* the folder, the marker, the busy flag, the assets, the layer flags, the
\* tasks and the batches alone, it opens no chooser, adds no asset, calls no
\* worker, and it ends fulfilled with serviceAvailable false.
C4_NotReadyOnlyReportsUnavailable ==
    [][\A r \in Requests :
          (req'[r] # req[r] /\ req'[r].unavailable)
              => /\ UNCHANGED <<exportService, lastFolderPath, activeExports,
                                serviceBusy, assets, exportEnabled, tasks, batch>>
                 /\ req'[r].wrote = {}
                 /\ req'[r].prompt = "none" /\ req'[r].add = "none"
                 /\ req'[r].result # "rejected"
                 /\ req'[r].pc = "done"
                       => (req'[r].result = "fulfilled" /\ serviceAvailable' = FALSE)
                 /\ req'[r].pc # "done" => serviceAvailable' = serviceAvailable]_vars

\* C4 witness: one request exported while the service was ready; a reset then
\* dropped the connection, and the next operation went the not-ready way and
\* ended fulfilled, with serviceAvailable turned to false.
C4_Witness ==
    /\ resets.count = 1 /\ exportService = "null"
    /\ ~serviceAvailable
    /\ \E r1, r2 \in Requests :
          /\ req[r1].launched > 0
          /\ req[r2].unavailable /\ req[r2].pc = "done"
          /\ req[r2].result = "fulfilled"

\* promptForFolder of the request resolved with null: the user cancelled.
Cancelled(rq) == rq.prompt = "settled" /\ rq.promptOut = "cancel"

\* What an export request that goes past the folder choice writes.
PastFolder == {"folder", "requested", "busy", "marker", "worker"}

\* C5 (as claimed): after a cancel the request has launched no task, marked
\* no asset, written neither the busy flag nor the marker, and it ends
\* fulfilled, for exportLayerAssets and exportDocumentAssets alike.
C5_CancelAlwaysFulfilled ==
    \A r \in Requests :
        (IsExport(req[r]) /\ Cancelled(req[r]) /\ req[r].pc = "done")
            => /\ req[r].launched = 0
               /\ req[r].wrote \cap PastFolder = {}
               /\ req[r].result = "fulfilled"

\* C6: in promptForFolder the dialog opens only after suspendAllPolicies was
\* fulfilled and before any restore; once the dialog call has settled (folder,
\* cancel or error) restoreAllPolicies has been invoked, once; and the
\* request is rejected with the error of the prompt only after that.
C6_PoliciesSuspendedAndRestored ==
    \A r \in Requests :
        /\ req[r].prompt = "dialog" => (req[r].suspended /\ req[r].restores = 0)
        /\ "chooser" \in req[r].wrote => req[r].suspended
        /\ req[r].prompt \in {"restoring", "settled"} => req[r].restores = 1
        /\ req[r].promptOut # "pending" => req[r].restores = 1
        /\ (req[r].result = "rejected" /\ req[r].error = "prompt")
               => (req[r].prompt = "settled" /\ req[r].restores = 1)

\* C6 witness: a dialog that failed, the policies restored, the request
\* rejected with the error of the dialog.
C6_Witness ==
    \E r \in Requests :
        /\ req[r].result = "rejected" /\ req[r].error = "prompt"
        /\ req[r].promptOut = "dialogFailed" /\ "chooser" \in req[r].wrote
        /\ req[r].restores = 1

\* The number of entries before position i of a list that equal its i-th.
Earlier(list, i) == Cardinality({j \in 1..(i - 1) : list[j] = list[i]})

\* C7 (as claimed): the k-th layer (k = 0, 1, ...) of a name N gets N when
\* k = 0 and N, a space and k when k >= 1.
C7_SuffixCountsFromOne ==
    filenames # <<>> =>
        \A i \in 1..Len(names) :
            filenames[i] = IF Earlier(names, i) = 0 THEN names[i]
                           ELSE names[i] \o " " \o ToString(Earlier(names, i))

\* C7 (amended): the k-th layer (k = 0, 1, ...) of a name N gets N when
\* k = 0 and N, a space and k + 1 when k >= 1: Icon, Icon 2, Icon 3.
C7_SuffixCountsFromTwo ==
    filenames # <<>> =>
        /\ Len(filenames) = Len(names)
        /\ \A i \in 1..Len(names) :
              filenames[i] = IF Earlier(names, i) = 0 THEN names[i]
                             ELSE names[i] \o " " \o ToString(Earlier(names, i) + 1)

\* C7 witness: three layers named Icon were given the names Icon, Icon 2 and
\* Icon 3.
C7_Witness ==
    /\ names = <<"Icon", "Icon", "Icon">>
    /\ filenames = <<"Icon", "Icon 2", "Icon 3">>

\* The request r takes its launch step.
Launches(r) == req[r].pc = "launching" /\ req'[r].pc = "done"

\* The tasks launched by the step.
NewTasks == {k \in 1..Len(tasks') : k > Len(tasks)}

\* C8: when a request launches export tasks, its addAsset has been fulfilled,
\* metadata write included, and every target that lacked assets at the call
\* has assets in the list read at the launch and gets a task.
C8_DefaultsBeforeLaunch ==
    [][\A r \in Requests :
          (Launches(r) /\ NewTasks # {})
              => /\ req[r].add \in {"none", "done"}
                 /\ \A x \in req[r].without :
                        /\ assets[x] # <<>>
                        /\ \E k \in NewTasks : tasks'[k].target = x]_vars

\* C8 witness: a request that had to add a default asset has launched.
C8_Witness ==
    \E r \in Requests :
        /\ req[r].without # {} /\ req[r].add = "done"
        /\ req[r].launched > 0
        /\ \E t \in tasksOf(r) : tasks[t].target \in req[r].without

\* C9 (as claimed): at the launch of a request every target that had no asset
\* at the call has exactly one, and every other target of the request has as
\* many as at the call, whatever interleaves.
C9_ExactlyOneDefaultAsset ==
    [][\A r \in Requests :
          (Launches(r) /\ req'[r].error # "add")
              => \A x \in requestTargets(req[r]) :
                    Len(assets[x]) = IF x \in req[r].without THEN 1
                                     ELSE req[r].before[x]]_vars

\* C10: a batch completes only when every task of it has settled; the
\* completion clears the marker and leaves the busy flag as it is, and the
\* step after it clears the busy flag; no other step ends a batch.
C10_BatchCompletion ==
    [][\A b \in Requests :
          /\ (batch[b] = "running" /\ batch'[b] # "running")
                => /\ allSettled(b)
                   /\ batch'[b] = "clearing"
                   /\ activeExports' = 0
                   /\ serviceBusy' = serviceBusy
          /\ (batch[b] = "clearing" /\ batch'[b] # "clearing")
                => /\ batch'[b] = "done"
                   /\ serviceBusy' = FALSE
                   /\ activeExports' = activeExports
          /\ (batch'[b] = "done" /\ batch[b] # "done") => batch[b] = "clearing"]_vars

\* C10 witness: a batch with a failed task and a task that succeeded has
\* completed: marker and busy flag are clear.
C10_Witness ==
    \E b \in Requests :
        /\ batch[b] = "done" /\ activeExports = 0 /\ ~serviceBusy
        /\ \E t1, t2 \in tasksOf(b) :
              tasks[t1].status = "ERROR" /\ tasks[t2].status = "STABLE"

\* The step is the worker's answer to task t.
Replies(t) == tasks[t].st = "inflight" /\ tasks'[t].st # "inflight"

\* The step is the dispatch of ASSET_CHANGED of task t.
Records(t) == tasks[t].st = "replied" /\ tasks'[t].st = "syncing"

\* The asset lists after the step differ from those before at most in the
\* asset at index i (0-based) of target x.
OnlyAssetChanged(x, i) ==
    \A y \in Targets :
        /\ Len(assets'[y]) = Len(assets[y])
        /\ \A k \in 1..Len(assets[y]) :
              (y = x /\ k = i + 1) \/ assets'[y][k] = assets[y][k]

\* C11: a failed export is isolated. The failure leaves the requests, the
\* batches, the marker and every other task as they are; its recording sets
\* the asset at the task's index to ERROR and changes no other asset; and a
\* batch that is done has an outcome for every one of its tasks.
C11_FailureIsolated ==
    [][/\ \A t \in 1..Len(tasks) :
            /\ (Replies(t) /\ tasks'[t].status = "ERROR")
                  => /\ UNCHANGED <<assets, req, batch, activeExports, serviceBusy>>
                     /\ Len(tasks') = Len(tasks)
                     /\ \A u \in 1..Len(tasks) : u # t => tasks'[u] = tasks[u]
            /\ (Records(t) /\ tasks[t].status = "ERROR")
                  => /\ OnlyAssetChanged(tasks[t].target, tasks[t].index)
                     /\ assets'[tasks[t].target][tasks[t].index + 1].status = "ERROR"
                     /\ UNCHANGED <<req, batch, activeExports>>
       /\ \A b \in Requests :
            batch'[b] = "done"
                => \A t \in 1..Len(tasks') :
                      tasks'[t].req = b => tasks'[t].status \in {"STABLE", "ERROR"}]_vars

\* C11 witness: of two tasks of one batch the first failed and the second
\* succeeded, both outcomes are recorded, and the request was fulfilled.
C11_Witness ==
    \E t1, t2 \in 1..Len(tasks) :
        /\ tasks[t1].req = tasks[t2].req /\ t1 < t2
        /\ tasks[t1].status = "ERROR" /\ tasks[t1].st = "synced"
        /\ tasks[t2].status = "STABLE" /\ tasks[t2].st = "synced"
        /\ assets[tasks[t1].target][tasks[t1].index + 1].status = "ERROR"
        /\ assets[tasks[t2].target][tasks[t2].index + 1].status = "STABLE"
        /\ req[tasks[t1].req].result = "fulfilled"
        /\ batch[tasks[t1].req] = "done"

\* C12 (as claimed): the recording of a task sets the asset at the task's
\* index to STABLE with a non-empty filePath when the worker call succeeded,
\* also when it returned an empty list, and to ERROR with an empty filePath
\* when it failed; scale and suffix of that asset and every other asset stay.
C12_OutcomeRecorded ==
    [][\A t \in 1..Len(tasks) :
          Records(t) =>
             LET before == assets[tasks[t].target][tasks[t].index + 1]
                 after  == assets'[tasks[t].target][tasks[t].index + 1]
             IN  /\ OnlyAssetChanged(tasks[t].target, tasks[t].index)
                 /\ after.scale = before.scale /\ after.suffix = before.suffix
                 /\ after.status = tasks[t].status
                 /\ tasks[t].status = "STABLE"
                       => after.filePath \notin {"", UNDEFINED}
                 /\ tasks[t].status = "ERROR" => after.filePath = ""]_vars

\* C13: the promise of an export task is never rejected: once the worker has
\* answered, with paths or with an error, it is fulfilled, and it stays so
\* when the dispatch or the metadata write of the status update fails.
C13_TaskAlwaysFulfilled ==
    \A t \in 1..Len(tasks) :
        /\ tasks[t].promise # "rejected"
        /\ tasks[t].st = "inflight" <=> tasks[t].promise = "pending"
        /\ tasks[t].st = "syncFailed" => tasks[t].promise = "fulfilled"

\* C13 witness: in one batch the worker failed on one task and the metadata
\* write of the status update failed on another; both promises are fulfilled
\* and the batch has completed.
C13_Witness ==
    \E t1, t2 \in 1..Len(tasks) :
        /\ tasks[t1].req = tasks[t2].req /\ t1 # t2
        /\ tasks[t1].status = "ERROR" /\ tasks[t1].promise = "fulfilled"
        /\ tasks[t2].st = "syncFailed" /\ tasks[t2].promise = "fulfilled"
        /\ batch[tasks[t1].req] = "done"

\* C14: afterStartup makes at most two attempts of _enableAndConnect. A
\* second one is made only after the first was rejected; once the first is
\* rejected a second one is made; when both were rejected the chain is over,
\* setServiceAvailable(true) was never called and serviceAvailable is false.
C14_OneRetry ==
    /\ startup.attempts <= 2 /\ startup.failed <= startup.attempts
    /\ startup.attempts = 2 => startup.failed >= 1
    /\ startup.failed >= 1 => startup.attempts = 2
    /\ (startup.pc \in {"tap", "done"} /\ startup.failed = 0)
           => startup.attempts <= 1
    /\ startup.failed = 2
           => /\ startup.pc = "done" /\ startup.available = "none"
              /\ ~serviceAvailable

\* C14 witness: both attempts were rejected and the handshake gave up.
C14_Witness ==
    /\ startup.pc = "done" /\ startup.attempts = 2 /\ startup.failed = 2
    /\ startup.statusQueries = 2 /\ ~serviceAvailable

\* C15 (as claimed): when the handshake has given up after two rejected
\* attempts, _exportService is null and serviceAvailable is false.
C15_FailureClearsHandle ==
    startup.failed = 2 => (exportService = "null" /\ ~serviceAvailable)

\* C16: the promise of afterStartup is never rejected: the chain ends
\* fulfilled after rejected attempts, after a failed enabling of the generator
\* and after a failed dispatch in the tap.
C16_StartupAlwaysFulfilled ==
    /\ startup.result # "rejected"
    /\ startup.pc = "done" <=> startup.result = "fulfilled"

\* C16 witness: the chain has ended fulfilled, once after the generator could
\* not be enabled in either attempt, or after the dispatch in the tap failed.
C16_Witness ==
    /\ startup.result = "fulfilled"
    /\ \/ startup.enables = 2 /\ startup.failed = 2
       \/ startup.tap = "failed"

\* C17: the quick check is made in debug mode only and at most once; when it
\* succeeds the generator status is not queried, the generator is not enabled
\* and no attempt of _enableAndConnect is made; when it fails, and outside
\* debug mode, _enableAndConnect runs.
C17_QuickCheckShortCut ==
    /\ startup.quickChecks <= 1
    /\ ~startup.debug => (startup.quickChecks = 0 /\ startup.quick = "none")
    /\ (startup.pc # "idle" /\ ~startup.debug) => startup.attempts >= 1
    /\ startup.quick = "ok"
           => /\ startup.attempts = 0 /\ startup.statusQueries = 0
              /\ startup.enables = 0 /\ startup.pc \in {"tap", "done"}
    /\ startup.quick = "failed"
           => (startup.attempts >= 1 /\ startup.statusQueries >= 1)

\* C17 witness: the quick check succeeded and the handshake is done, the
\* service ready and available.
C17_Witness ==
    /\ startup.quick = "ok" /\ startup.pc = "done"
    /\ exportService = "ready" /\ serviceAvailable

\* ------------------------------------------------------ C18: sync follows

\* The step issues the metadata write of target x: _syncExportMetadata is
\* called by the addAsset of a request, by the updateExportAsset of a task or
\* by an asset operation, with x among its layers (or the document root).
SyncIssuedFor(x) ==
    \/ \E r \in Requests :
          /\ req[r].add # "syncing" /\ req'[r].add = "syncing"
          /\ x \in addTargets(req[r])
    \/ \E t \in 1..Len(tasks) : Records(t) /\ tasks[t].target = x
    \/ /\ edit.pc = "landing" /\ edit'.pc = "syncing"
       /\ x \in edit.targets

\* The step is _setAssetsRequested marking the assets of target x.
MarksRequested(x) ==
    \E r \in Requests :
        /\ req[r].pc = "requesting" /\ req'[r].pc = "busying"
        /\ x \in requestTargets(req[r])
        /\ assets'[x] = markRequested(assets[x])

\* C18 as stated: every step that changes the asset list of a target (asset
\* added, updated, deleted, assets marked REQUESTED) issues the metadata sync
\* of that target in the operation that made the change.
C18_EveryMutationSynced ==
    [][\A x \in Targets : assets'[x] # assets[x] => SyncIssuedFor(x)]_vars

\* C18 amended: every step that adds, updates or deletes an asset of a target
\* issues the metadata sync of that target; the only change of a list made
\* without a sync is _setAssetsRequested setting the status of the target's
\* assets to REQUESTED.
C18_MutationSyncedUnlessMarking ==
    [][\A x \in Targets :
          assets'[x] # assets[x] => (SyncIssuedFor(x) \/ MarksRequested(x))]_vars

\* C18 witness: the first asset operation, a delete on layer 2, has removed an
\* asset and its metadata write is under way, after an export request marked
\* its assets REQUESTED.
C18_Witness ==
    /\ edit.op = "delete" /\ edit.pc = "syncing" /\ edit.count = 1
    /\ edit.targets = {2} /\ Len(assets[2]) = 1
    /\ "requested" \in req[1].wrote

\* ------------------------------------------- C19: update out of range

\* The step is the dispatch of ASSET_CHANGED of the asset operation.
EditUpdateLands ==
    /\ edit.pc = "landing" /\ edit.op \in {"update", "default"}
    /\ edit' # edit

\* The step is the dispatch of ASSET_CHANGED of task t.
TaskUpdateLands(t) == tasks[t].st = "replied" /\ tasks'[t].st # "replied"

\* new ExportAsset(props) of the props of an update: of the scale given, or
\* of scale 1, with the suffix given, or the one of its scale, and of the
\* format given, or png.
MadeOf(scales, suffixes, formats) ==
    LET made     == NewAsset(IF scales = <<>> THEN 10 ELSE scales[1])
        suffixed == IF suffixes = <<>> THEN made
                    ELSE [made EXCEPT !.suffix = suffixes[1]]
    IN  IF formats = <<>> THEN suffixed
        ELSE [suffixed EXCEPT !.format = formats[1]]

\* The list of x after the step is the list before with one asset more at
\* its end.
AddedAtEnd(x, asset) ==
    /\ Len(assets'[x]) = Len(assets[x]) + 1
    /\ SubSeq(assets'[x], 1, Len(assets[x])) = assets[x]
    /\ assets'[x][Len(assets'[x])] = asset

scalesOf(x) == [k \in 1..Len(assets[x]) |-> assets[x][k].scale]

\* -------------------------------------------------- C21: default scale

\* The scales of the assets of target x, as a set.
usedScales(x) == {assets[x][k].scale : k \in 1..Len(assets[x])}

\* The first value of SCALES, in its order, that is not in used; the first
\* value of SCALES when all are in used.
FirstFree(used) ==
    IF \E i \in 1..Len(SCALES) : SCALES[i] \notin used
    THEN SCALES[CHOOSE i \in 1..Len(SCALES) :
                    /\ SCALES[i] \notin used
                    /\ \A j \in 1..(i - 1) : SCALES[j] \in used]
    ELSE SCALES[1]

\* C21: addAsset called without props on a target (the document root or one
\* layer) asks for one asset, whose scale is the first of the defined scales
\* not among the scales of the target's assets, and the first defined scale
\* when all are used; the insert then adds exactly that one asset, at the
\* end of the target's list.
C21_DefaultScale ==
    [][/\ (edit.pc = "idle" /\ edit'.op = "add" /\ edit'.count = edit.count + 1)
           => \A x \in edit'.targets :
                 /\ edit'.scales = <<FirstFree(usedScales(x))>>
                 /\ edit'.index = Len(assets[x])
       /\ (edit.pc = "landing" /\ edit.op = "add" /\ edit'.pc = "syncing")
           => \A x \in edit.targets :
                 /\ Len(assets'[x]) = Len(assets[x]) + 1
                 /\ SubSeq(assets'[x], 1, Len(assets[x])) = assets[x]
                 /\ assets'[x][Len(assets'[x])].scale = edit.scales[1]]_vars

\* C21 witness: the root had assets of scales 1 and 2 and got one of scale
\* 0.5; layer 1 had assets of all six scales and got a second one of scale
\* 0.5.
C21_Witness ==
    /\ edit.count = 2 /\ edit.pc = "idle" /\ edit.result = "fulfilled"
    /\ scalesOf(ROOT) = <<10, 20, 5>>
    /\ scalesOf(1) = <<5, 10, 15, 20, 30, 40, 5>>

\* -------------------------------------------------- C22: SyncError

\* C22: an asset operation whose metadata sync failed ends rejected, whether
\* it is addAsset, updateExportAsset (called directly or by addDefaultAsset)
\* or deleteExportAsset, unless it is an updateExportAsset called with
\* suppressErrors, which ends fulfilled; an operation whose sync succeeded
\* ends fulfilled.
C22_SyncErrorEscalated ==
    (edit.pc = "idle" /\ edit.sync # "none")
        => /\ edit.op \in {"add", "update", "delete", "default"}
           /\ edit.suppressErrors => edit.op = "update"
           /\ edit.result = IF edit.sync = "failed" /\ ~edit.suppressErrors
                            THEN "rejected" ELSE "fulfilled"
           /\ edit.result = "rejected" => edit.error = "sync"

\* C22 witness: a delete on layer 2 removed an asset, its metadata sync failed
\* and the delete has ended rejected.
C22_Witness ==
    /\ edit.op = "delete" /\ edit.pc = "idle" /\ edit.targets = {2}
    /\ edit.sync = "failed" /\ edit.result = "rejected"
    /\ Len(assets[2]) = 1

\* -------------------------------------------- C23: no synchronous throw

\* C23 (as claimed): no call of exportLayerAssets or exportDocumentAssets,
\* with a document or without one, with the service ready or not, throws: each
\* returns a promise.
C23_NeverThrows ==
    \A r \in Requests : req[r].result # "threw"

\* -------------------------------------------------------- C24: fan-out

\* The step launches exactly one task of request r for every asset of every
\* target of the request, as the lists are at the launch, and no other task.
OneTaskPerAsset(r) ==
    /\ \A x \in requestTargets(req[r]) : \A i \in 0..(Len(assets[x]) - 1) :
          Cardinality({k \in NewTasks : /\ tasks'[k].target = x
                                        /\ tasks'[k].index = i}) = 1
    /\ \A k \in NewTasks :
          /\ tasks'[k].req = r
          /\ tasks'[k].target \in requestTargets(req[r])
          /\ tasks'[k].index < Len(assets[tasks'[k].target])

\* The tasks launched by the step are the BatchJob of request r: the marker
\* is set to their batch, which is running.
OneBatchJob(r) ==
    /\ activeExports' = r
    /\ batch'[r] = "running"

\* C24 (as claimed): a request that reaches its launch with its default
\* assets added launches exactly one task for every (target, asset) pair, and
\* all the tasks of the request form one BatchJob.
C24_FanOut ==
    [][\A r \in Requests :
          (Launches(r) /\ quickAddFulfilled(req[r]))
              => (OneTaskPerAsset(r) /\ OneBatchJob(r))]_vars

\* ------------------------------------------------ C25: target resolution

\* The step is the call of exportLayerAssets by request r, with the service
\* ready.
CallsLayers(r) ==
    /\ req[r].pc = "idle" /\ req'[r].pc = "open" /\ req'[r].kind = "layers"

\* The targets of a call with an explicit layer set are the exportable layers
\* of the set, whatever their exportEnabled flag, and no task is ever
\* launched for a layer that is not exportable.
ExplicitTargets ==
    /\ \A r \in Requests :
          (CallsLayers(r) /\ req'[r].args # NoLayers)
              => Range(req'[r].layersList) = Range(req'[r].args) \cap ExportableLayers
    /\ \A k \in NewTasks : tasks'[k].target \in ExportableLayers \cup {ROOT}

\* C25: explicit sets resolve to their exportable layers, whatever their
\* exportEnabled flag; with no layer set the targets are all the exportable
\* layers flagged exportEnabled, and no default asset is added to them; no
\* task is ever launched for a layer that is not exportable.
C25_TargetsAllEnabled ==
    [][/\ ExplicitTargets
       /\ \A r \in Requests :
             (CallsLayers(r) /\ req'[r].args = NoLayers)
                 => /\ Range(req'[r].layersList) =
                           {l \in ExportableLayers : exportEnabled[l]}
                    /\ req'[r].add = "none"]_vars

\* C25 witness: a request without a layer set has resolved to the layers 1
\* and 2 and has launched the one task of layer 2; layer 1 is flagged
\* exportEnabled and has no asset, layer 3 is flagged, has an asset and is not
\* exportable.
C25_Witness ==
    /\ req[1].kind = "layers" /\ req[1].args = NoLayers
    /\ req[1].pc = "done" /\ req[1].launched = 1
    /\ req[1].layersList = <<1, 2>>
    /\ exportEnabled[1] /\ assets[1] = <<>>
    /\ exportEnabled[3] /\ assets[3] # <<>>
    /\ \A k \in 1..Len(tasks) : tasks[k].target = 2

\* ---------------------------------------------------- C26: lastFolderPath

\* The step is the handler of request r behind promptForFolder.
FolderHandled(r) ==
    /\ req[r].pc = "open" /\ req[r].prompt = "settled" /\ req'[r].pc # "open"

\* The step opens the folder chooser of request r.
ChooserOpened(r) == req[r].prompt = "suspending" /\ req'[r].prompt = "dialog"

\* C26: _lastFolderPath is written only by onReset, which clears it, and by
\* the handler of a request whose folder chooser returned a folder, which
\* writes that folder; a handler whose chooser was cancelled or failed leaves
\* it as it is; and every folder chooser is opened with the current
\* _lastFolderPath as seed, "~" when there is none.
C26_LastFolderRemembered ==
    [][/\ lastFolderPath' # lastFolderPath
           => \/ lastFolderPath' = NULL /\ resets'.count = resets.count + 1
              \/ \E r \in Requests :
                    /\ FolderHandled(r)
                    /\ req[r].promptOut = "folder" /\ req[r].baseDir \in Dirs
                    /\ lastFolderPath' = req[r].baseDir
       /\ \A r \in Requests :
             /\ (FolderHandled(r) /\ req'[r].pc = "requesting")
                    => (req[r].baseDir \in Dirs /\ lastFolderPath' = req[r].baseDir)
             /\ (FolderHandled(r) /\ req[r].promptOut # "folder")
                    => lastFolderPath' = lastFolderPath
             /\ ChooserOpened(r)
                    => req'[r].seed = IF lastFolderPath \in Dirs
                                      THEN lastFolderPath ELSE "~"]_vars

\* C26 witness: the first request chose /a; the chooser of the second was
\* seeded with /a and chose /b, which is remembered now.
C26_Witness ==
    /\ req[1].baseDir = "/a" /\ req[1].seed = "~" /\ req[1].pc = "done"
    /\ req[2].seed = "/a" /\ req[2].baseDir = "/b" /\ req[2].pc = "done"
    /\ lastFolderPath = "/b" /\ resets.count = 0

\* ------------------------------------------------------------ C27: onReset

\* The step is the call of onReset.
ResetCalled == resets'.count = resets.count + 1

\* The step is the end of the close() that onReset called.
ResetSettled == resets.closing /\ ~resets'.closing

\* C27: onReset clears _lastFolderPath and the marker at its call in every
\* connection state; when no connection is stored it calls no close() and is
\* fulfilled at once; otherwise it calls close() once, and when that ends,
\* fulfilled or rejected, the stored connection is null and onReset has
\* settled.
C27_ResetSafe ==
    [][/\ ResetCalled
           => /\ lastFolderPath' = NULL /\ activeExports' = 0
              /\ IF exportService = "null"
                 THEN /\ resets'.closes = resets.closes
                      /\ ~resets'.closing /\ resets'.result = "fulfilled"
                      /\ exportService' = "null"
                 ELSE /\ resets'.closes = resets.closes + 1
                      /\ resets'.closing /\ resets'.result = "pending"
       /\ ResetSettled
           => /\ exportService' = "null"
              /\ resets'.result \in {"fulfilled", "rejected"}]_vars

\* C27 witness: onReset was called on a stored connection, its close()
\* failed, and the connection is null.
C27_Witness ==
    /\ resets.count = 1 /\ resets.closes = 1 /\ ~resets.closing
    /\ resets.result = "rejected"
    /\ exportService = "null"

\* -------------------------------------------------------- C28: busy flag

\* C28 (as claimed): the busy flag does not stay stuck: whenever it is true it
\* is eventually false again, also when adding the default assets failed or
\* the start of the batch threw.
C28_BusyNotStuck == serviceBusy ~> ~serviceBusy

\* ------------------------------------------- C29: outcomes at completion

\* The step completes the BatchJob of request b: the busy flag is cleared,
\* after the marker.
Completes(b) == batch[b] = "clearing" /\ batch'[b] = "done"

\* C29 (as claimed): when a BatchJob completes, the outcome of every task of
\* it is recorded: ASSET_CHANGED was dispatched for the task, and the asset
\* it exported has status STABLE or ERROR, not REQUESTED.
C29_RecordedAtCompletion ==
    [][\A b \in Requests :
          Completes(b)
              => \A t \in tasksOf(b) :
                    /\ tasks'[t].st \notin {"inflight", "replied"}
                    /\ assets'[tasks'[t].target][tasks'[t].index + 1].status
                           \in {"STABLE", "ERROR"}]_vars

\* ------------------------------------------ C30: reset during a batch

\* The BatchJob of request b is active and holds the marker, with tasks that
\* have not settled.
HoldsMarker(b) ==
    /\ batch[b] = "running" /\ activeExports = b
    /\ tasksOf(b) \cap unsettled # {}

\* C30 (as claimed): while the BatchJob of a request holds the marker with
\* tasks unsettled, the completion handler of the BatchJob of another
\* request, which was active before a reset, does not clear the marker.
C30_OlderBatchKeepsOff ==
    [][\A a, b \in Requests :
          (a # b /\ HoldsMarker(b) /\ batch[a] = "running" /\ batch'[a] # "running")
              => activeExports' = b]_vars

\* ------------------------------------- C31: the folder the tasks are given

\* C31 (as claimed): every task is launched with the folder that was chosen
\* in the folder chooser of its own request, whatever was called between the
\* choice and the launch.
C31_TaskDirIsChosenFolder ==
    \A t \in 1..Len(tasks) : tasks[t].dir = req[tasks[t].req].baseDir

\* ------------------------------------------ C33: distinct base filenames

\* C33 (as claimed): the base filenames derived for the layers of one batch
\* are pairwise distinct, whatever the names of the layers.
C33_FilenamesDistinct ==
    \A i, j \in 1..Len(filenames) : i # j => filenames[i] # filenames[j]

\* ------------------------------- C37: a failed suspend of the policies

\* promptForFolder of the request was called and suspendAllPolicies was
\* rejected: the finally handler ran without the policies suspended.
SuspendFailed(rq) == rq.prompt \in {"restoring", "settled"} /\ ~rq.suspended

\* C37: when suspendAllPolicies fails the folder dialog is not opened and the
\* request ends rejected; and restoreAllPolicies is transferred exactly once
\* per call of promptForFolder, in its finally handler: not before the
\* suspend and the dialog have ended, and once on every path after.
C37_SuspendFailureSkipsDialog ==
    \A r \in Requests :
        /\ SuspendFailed(req[r])
              => /\ "chooser" \notin req[r].wrote
                 /\ req[r].seed = NULL
                 /\ req[r].pc = "done" => req[r].result = "rejected"
        /\ req[r].prompt \in {"none", "suspending", "dialog"} => req[r].restores = 0
        /\ req[r].prompt \in {"restoring", "settled"} => req[r].restores = 1

\* C37 witness: a request whose suspendAllPolicies failed ended rejected with
\* the error of the prompt, the policies restored once, no dialog opened.
C37_Witness ==
    \E r \in Requests :
        /\ SuspendFailed(req[r]) /\ req[r].prompt = "settled"
        /\ req[r].promptOut = "suspendFailed"
        /\ req[r].restores = 1
        /\ req[r].pc = "done" /\ req[r].result = "rejected"
        /\ req[r].error = "prompt"

\* ------------------------------- C38: the artboard prefix preference

\* C38 (as claimed): every run of afterStartup dispatches the stored
\* exportUseArtboardPrefix preference to the export store, whether the
\* connection was made at once, at the second attempt or not at all.
C38_PrefixPublishedOnEveryRun ==
    startup.pc = "done" => startup.tap # "none"

\* ------------------------------------- C40: clicks and drags of the tool

\* C40: every left-button mouse down leads to at most one dispatch among
\* superselect.click and superselect.drag; a click is dispatched, on mouse
\* up, only when a mouse down is kept that no drag has consumed; and
\* dragging is true only while the event of the mouse down is kept.
C40_OneDispatchPerMouseDown ==
    [][/\ tool'.sinceDown <= 1
       /\ tool'.dragging => tool'.dragEvent # NULL
       /\ tool'.clicks # tool.clicks
             => /\ tool.dragEvent # NULL /\ tool.sinceDown = 0
                /\ tool'.dragEvent = NULL /\ ~tool'.dragging
       /\ tool'.drags # tool.drags
             => /\ tool.dragging /\ tool.sinceDown = 0
                /\ tool'.dragEvent = NULL]_vars

\* C40 witness: a drag was sent, the mouse up after it sent no click, and a
\* later mouse down and up sent a click.
C40_Witness ==
    /\ tool.drags = 1 /\ tool.clicks = 1
    /\ tool.sinceDown = 1
    /\ tool.count = MaxMouse
    /\ tool.dragEvent = NULL


\* --------------------------------------------- C39: the place commands

\* The step calls ps.performMenuCommand.
Performs == menu'.performed # menu.performed

\* What native does for every command, step by step: a payload without
\* commandID is rejected and performs nothing; a place command is performed
\* with the flag set and the policies suspended; a failure of a place command
\* goes to handleExecutedPlaceCommand, which clears the flag and restores the
\* policies when they are suspended; nothing is suspended or restored and the
\* flag is left alone while any other command runs.
NativeStepwise ==
    /\ (menu'.command = "noID" /\ menu'.count # menu.count)
          => (menu'.result = "rejected" /\ ~Performs)
    /\ (Performs /\ menu'.command = "place")
          => (menu'.executing /\ menu'.allSuspended)
    /\ (menu.command = "place" /\ menu.pc \in {"suspending", "performing"})
          => menu'.result # "rejected"
    /\ (menu.executing /\ ~menu'.executing)
          => (menu.allSuspended => menu'.restores = menu.restores + 1)
    /\ (menu'.command = "other" /\ (menu.pc # "idle" \/ menu'.pc # "idle"))
          => /\ menu'.suspends = menu.suspends
             /\ menu'.restores = menu.restores
             /\ menu'.allSuspended = menu.allSuspended
             /\ menu'.executing = menu.executing

\* C39 (as claimed): native treats every command as said above, and on every
\* execution of a place command the place command flag is cleared again.
C39_PlaceCommandCleansUp ==
    /\ [][NativeStepwise]_vars
    /\ menu.executing ~> ~menu.executing


\* ------------------------------------- C32: persisted after a batch

\* Request r has launched tasks, and in ts every one of them has had its
\* status update settled with its metadata write done.
UpdatesSettled(ts, r) ==
    /\ \E t \in 1..Len(ts) : ts[t].req = r
    /\ \A t \in 1..Len(ts) : ts[t].req = r => ts[t].st = "synced"

\* The step settles the last status update of the batch of request r.
SettlesBatch(r) == ~UpdatesSettled(tasks, r) /\ UpdatesSettled(tasks', r)

\* After the step, the persisted metadata of every target of the batch of
\* request r holds the in-memory asset list of the target.
PersistedAfter(r) ==
    \A t \in tasksOf(r) :
        metadata'[tasks[t].target].exportAssets = assets'[tasks[t].target]

\* C32 (as claimed): when the last status update of a batch settles, every
\* task and every update of the batch having settled without a sync error,
\* the persisted metadata of every target of the batch equals the in-memory
\* asset list of that target.
C32_PersistedEqualsMemory ==
    [][\A r \in Requests : SettlesBatch(r) => PersistedAfter(r)]_vars

\* ------------------------------------------- C34: sync is all-or-nothing

\* The step is one in which an asset operation calls _syncExportMetadata:
\* its dispatch of ASSET_ADDED, DELETE_ASSET or ASSET_CHANGED is fulfilled.
EditCallsSync == edit.pc = "landing" /\ edit' # edit

\* The document, its DocumentExports or one of the layers of the operation
\* cannot be found.
TargetMissing ==
    \/ ~docStore.found
    \/ ~docStore.exports
    \/ \E l \in edit.targets \ {ROOT} : l \notin docStore.layers

\* C34: a metadata sync is all-or-nothing. When the document, its
\* DocumentExports or any one of the listed layers cannot be found, the sync
\* fails and no metadata is written for any of the layers, then or later;
\* otherwise one write is issued that carries every target, and when it is
\* played all the targets are written in the same step.
C34_SyncAllOrNothing ==
    [][/\ (EditCallsSync /\ TargetMissing)
            => /\ edit'.sync = "failed" /\ edit'.pc = "idle"
               /\ edit'.write = NoWrite
               /\ metadata' = metadata
       /\ (EditCallsSync /\ ~TargetMissing)
            => /\ edit'.pc = "syncing"
               /\ DOMAIN edit'.write.data = edit.targets
               /\ \A t \in edit.targets :
                     edit'.write.data[t].exportAssets = assets'[t]
               /\ metadata' = metadata
       /\ metadata' # metadata
            => /\ edit.pc = "syncing"
               /\ \A t \in edit.targets : metadata'[t] = edit.write.data[t]
               /\ \A t \in Targets \ edit.targets : metadata'[t] = metadata[t]
       /\ (edit.pc = "syncing" /\ edit'.sync = "failed")
            => metadata' = metadata]_vars

\* C34 witness: a deletion on layers 1 and 2 has failed its sync because
\* layer 1 is not in the document, and the metadata of layer 2, which is,
\* still holds the two assets of which the store has one left.
C34_Witness ==
    /\ edit.op = "delete" /\ edit.targets = {1, 2}
    /\ edit.pc = "idle" /\ edit.sync = "failed" /\ edit.error = "sync"
    /\ docStore.found /\ docStore.exports /\ docStore.layers = {2, 3}
    /\ Len(assets[2]) = 1
    /\ Len(metadata[2].exportAssets) = 2


\* ------------------------------------------------------------------ C35

\* A setLayerExportEnabled call has been fulfilled.
EnableCompleted ==
    edit.op = "enable" /\ edit.pc = "idle" /\ edit.result = "fulfilled"

\* Every layer of the call is enabled and has an asset, exactly one where
\* it had none.
EnabledWithAssets ==
    \A l \in Range(edit.next.layers) :
        /\ exportEnabled[l]
        /\ assets[l] # <<>>
        /\ l \in Range(edit.next.without) => Len(assets[l]) = 1

\* No step of a disabling call changes an asset list.
DisableAddsNothing ==
    (edit'.op = "enable" /\ ~edit'.next.exportEnabled) => assets' = assets

\* C35: after setLayerExportEnabled(document, layers, true) completes, every
\* layer in layers has exportEnabled = true and at least one asset, a layer
\* that had no asset having exactly one default asset; with exportEnabled
\* false the flag is false on every layer of the call and no asset is added.
C35_EnableSetsFlagAndAsset ==
    /\ [](EnableCompleted =>
            IF edit.next.exportEnabled THEN EnabledWithAssets
            ELSE \A l \in Range(edit.next.layers) : ~exportEnabled[l])
    /\ [][DisableAddsNothing]_vars

====
